---- MODULE Spec2Model ----
(***************************************************************************)
(* Model of SystemMonitor/monitor.py: the MetricsCache (get / set /       *)
(* clear_expired with a ttl per entry), the scheduler of Monitor          *)
(* (start / stop / is_running and the background _monitoring_loop), the   *)
(* three read-through tiers of metrics, and the state() and alerts()      *)
(* calls with the history and the delivery threads of the alerts.         *)
(***************************************************************************)
EXTENDS Integers, Sequences, FiniteSets, TLC

\* ------------------------------------------------------------------ bounds
MaxTime == 3
MaxTtl == 2
MaxValue == 2
MaxThreads == 2
NumCallers == 2
NumWorkers == 2
MaxLap == 1
MaxInterval == 2
MaxPct == 2
MaxHist == 2
MaxCalls == 3
MaxTemp == 3
JitterSteps == 2

\* ------------------------------------------------------- program constants
max_consecutive_errors == 5

None == 0
Keys == {"fast_metrics", "slow_metrics"}
Values == 1..MaxValue
Ttls == 0..MaxTtl
Times == 0..MaxTime
Callers == 1..NumCallers
ThreadIds == 1..MaxThreads
Workers == 1..NumWorkers
NoOwner == 0

VARIABLES
    now,                \* time.time()
    cache,              \* MetricsCache.cache : dict key -> CachedMetric
    cacheOp,            \* observation of the last cache call (its arguments and result)
    lastSet,            \* per key, the arguments and time of the last set() of that key
    interval,           \* Monitor.interval
    running_lock,       \* Monitor._running_lock : the caller holding it, or NoOwner
    stop_event,         \* Monitor._stop_event
    monitoring_thread,  \* Monitor._monitoring_thread : a thread id, or None
    thr,                \* the Thread objects created by start(), by id
    pc,                 \* position of each caller of start / stop / is_running
    lastOp,             \* the start()/stop() call that returned last
    foundRunning,       \* is_running as found by the start()/stop() call that entered last
    cache_lock,         \* MetricsCache._lock : the worker thread holding it, or NoOwner
    wk,                 \* the threads that call the cache, by id: position and locals
    cfg,                \* the arguments of Monitor(...): limits, history_size, on_alert
    env,                \* the host: what the metric sources can report, and when calls are made
    history,            \* Monitor.history : deque(maxlen=history_size) of State
    taken,              \* every State built by state() so far, in order
    lastCall,           \* observation of the last state()/alerts() call
    deliveries,         \* the delivery threads started by the last alerts() call
    ctx,                \* the monitor_context block: not entered, entered, how its body ended
    qm,                 \* the quick_monitor call: its arguments, os.environ, the limits made
    job,                \* the state()/alerts() call each caller thread is inside
    legacy              \* the Monitor of system_monitor.py: _running, its loop threads, the calls made

cacheVars == <<cache, cacheOp, lastSet>>
schedVars == <<interval, running_lock, stop_event, monitoring_thread, thr, pc, lastOp,
              foundRunning>>
lockVars == <<cache_lock, wk>>
monVars == <<cfg, env, history, taken, lastCall, deliveries>>
appVars == <<ctx, qm, job, legacy>>
extVars == <<lockVars, monVars, appVars>>
vars == <<now, cache, cacheOp, lastSet, interval, running_lock, stop_event,
          monitoring_thread, thr, pc, lastOp, foundRunning, cache_lock, wk,
          cfg, env, history, taken, lastCall, deliveries, ctx, qm, job, legacy>>

\* =================================================================== cache
EmptyCache == [k \in {} |-> None]

CachedMetric(v, t, ttl) == [value |-> v, timestamp |-> t, ttl |-> ttl]

\* is_expired with ">=" in place of ">"
is_expired_Ge(m, t) == t - m.timestamp >= m.ttl

\* CachedMetric.is_expired, evaluated at time t
is_expired(m, t) == t - m.timestamp > m.ttl

\* MetricsCache.get: the value returned (the mapping is not changed)
get(c, k, t) ==
    IF k \in DOMAIN c /\ ~is_expired(c[k], t) THEN c[k].value ELSE None

\* MetricsCache.set: the mapping after the call
set(c, k, v, ttl, t) ==
    [x \in DOMAIN c \cup {k} |-> IF x = k THEN CachedMetric(v, t, ttl) ELSE c[x]]

\* expired_keys with ">=" in place of ">"
expired_keys_Ge(c, t) == {k \in DOMAIN c : t - c[k].timestamp >= c[k].ttl}

\* the list expired_keys of clear_expired
expired_keys(c, t) == {k \in DOMAIN c : t - c[k].timestamp > c[k].ttl}

\* MetricsCache.clear_expired: the mapping after the call
clear_expired(c, t) ==
    [x \in DOMAIN c \ expired_keys(c, t) |-> c[x]]

NoCacheOp == [op |-> "none"]
NoSet == [k \in {} |-> None]

CacheSet(k, v, ttl) ==
    /\ cache' = set(cache, k, v, ttl, now)
    /\ lastSet' = [x \in DOMAIN lastSet \cup {k} |->
                     IF x = k THEN [value |-> v, ttl |-> ttl, time |-> now] ELSE lastSet[x]]
    /\ cacheOp' = [op |-> "set", key |-> k, time |-> now]
    /\ UNCHANGED <<now, extVars, schedVars>>

CacheGet(k) ==
    /\ cacheOp' = [op |-> "get", key |-> k, time |-> now, result |-> get(cache, k, now)]
    /\ UNCHANGED <<now, extVars, cache, lastSet, schedVars>>

CacheClearExpired ==
    /\ cache' = clear_expired(cache, now)
    /\ cacheOp' = [op |-> "clear", time |-> now, before |-> cache]
    /\ UNCHANGED <<now, extVars, lastSet, schedVars>>

\* the clock of the cache specification
CacheTick ==
    /\ now < MaxTime
    /\ now' = now + 1
    /\ UNCHANGED <<cacheVars, schedVars, extVars>>

\* =============================================================== scheduler
NewThread == [pc |-> "new", consecutive_errors |-> 0, last_check |-> 0,
              current_time |-> 0, run |-> 0, failed |-> FALSE, exit |-> "none",
              backoff |-> 0, jitter |-> 0]

\* Thread.is_alive
is_alive(t) == thr[t].pc \notin {"new", "done"}

\* is_running without the test of _stop_event
is_running_NoEventTest ==
    /\ monitoring_thread # None
    /\ is_alive(monitoring_thread)

\* Monitor.is_running (the value computed under _running_lock)
is_running ==
    /\ monitoring_thread # None
    /\ is_alive(monitoring_thread)
    /\ ~stop_event

AliveThreads == {t \in ThreadIds : is_alive(t)}
Created == {t \in ThreadIds : thr[t].pc # "new"}

SchedInit ==
    /\ interval \in 1..MaxInterval
    /\ running_lock = NoOwner
    /\ stop_event = FALSE
    /\ monitoring_thread = None
    /\ thr = [t \in ThreadIds |-> NewThread]
    /\ pc = [c \in Callers |-> "idle"]
    /\ lastOp = "none"
    /\ foundRunning = FALSE

CacheInit ==
    /\ cache = EmptyCache
    /\ cacheOp = NoCacheOp
    /\ lastSet = NoSet

\* a thread that is not inside any call
IdleWorker == [pc |-> "idle", key |-> "", val |-> None, ttl |-> 0, keys |-> {},
               ret |-> None, exp |-> None, g |-> "", calls |-> 0]

WorkInit ==
    /\ cache_lock = NoOwner
    /\ wk = [w \in Workers |-> IdleWorker]


\* ------------------------------------------------------------ _running_lock
\* start() and stop() without the lock
CanAcquire_NoLock(c) == TRUE

\* Lock.acquire of _running_lock (entry of a "with self._running_lock" block)
CanAcquire(c) == running_lock = NoOwner

\* leaving the "with self._running_lock" block
Release(c) == IF running_lock = c THEN NoOwner ELSE running_lock

\* ------------------------------------------------------------------ start()
\* start() that returns whenever a thread handle exists, alive or not
StartReturnsEarly_HandleTest == stop_event \/ monitoring_thread # None

\* start() without the test of Thread.is_alive
StartReturnsEarly_NoAliveTest == stop_event

\* the two early returns of start(): TRUE when start() returns without launching
StartReturnsEarly ==
    \/ stop_event
    \/ (monitoring_thread # None /\ is_alive(monitoring_thread))

\* with self._running_lock: the two tests at the top of start()
StartCheck(c) ==
    /\ pc[c] = "idle"
    /\ CanAcquire(c)
    /\ running_lock' = c
    /\ pc' = [pc EXCEPT ![c] = IF StartReturnsEarly THEN "start_ret" ELSE "start_launch"]
    /\ foundRunning' = is_running
    /\ UNCHANGED <<now, extVars, cacheVars, interval, stop_event, monitoring_thread, thr,
                   lastOp>>

\* _stop_event.clear(); Thread(target=_monitoring_loop); thread.start()
StartLaunch(c) ==
    /\ pc[c] = "start_launch"
    /\ \E t \in ThreadIds :
         /\ thr[t].pc = "new"
         /\ \A u \in ThreadIds : u < t => thr[u].pc # "new"
         /\ thr' = [thr EXCEPT ![t].pc = "init"]
         /\ monitoring_thread' = t
    /\ stop_event' = FALSE
    /\ pc' = [pc EXCEPT ![c] = "start_end"]
    /\ UNCHANGED <<now, extVars, cacheVars, interval, running_lock, lastOp, foundRunning>>

\* start() returns (by one of the early returns, or at the end of the block)
StartReturn(c) ==
    /\ pc[c] \in {"start_ret", "start_end"}
    /\ running_lock' = Release(c)
    /\ pc' = [pc EXCEPT ![c] = "idle"]
    /\ lastOp' = "start"
    /\ UNCHANGED <<now, extVars, cacheVars, interval, stop_event, monitoring_thread, thr, foundRunning>>

\* ------------------------------------------------------------------- stop()
\* stop() without the test "if not self._stop_event.is_set()"
StopCheck_NoTest(c) ==
    /\ pc[c] = "idle"
    /\ CanAcquire(c)
    /\ running_lock' = c
    /\ stop_event' = TRUE
    /\ pc' = [pc EXCEPT ![c] = IF monitoring_thread # None THEN "stop_join" ELSE "stop_end"]
    /\ foundRunning' = is_running
    /\ UNCHANGED <<now, extVars, cacheVars, interval, monitoring_thread, thr, lastOp>>

\* with self._running_lock: if not _stop_event.is_set(): _stop_event.set();
\* if self._monitoring_thread is not None: join
StopCheck(c) ==
    /\ pc[c] = "idle"
    /\ CanAcquire(c)
    /\ running_lock' = c
    /\ IF ~stop_event
       THEN /\ stop_event' = TRUE
            /\ pc' = [pc EXCEPT ![c] = IF monitoring_thread # None
                                       THEN "stop_join" ELSE "stop_end"]
       ELSE /\ stop_event' = stop_event
            /\ pc' = [pc EXCEPT ![c] = "stop_ret"]
    /\ foundRunning' = is_running
    /\ UNCHANGED <<now, extVars, cacheVars, interval, monitoring_thread, thr, lastOp>>

\* a join without timeout: it returns only when the thread has exited
JoinReturns_NoTimeout(timedOut) == ~is_alive(monitoring_thread)

\* Thread.join(timeout): it returns when the thread has exited, or when the
\* timeout has run out
JoinReturns(timedOut) == timedOut \/ ~is_alive(monitoring_thread)

\* _monitoring_thread.join(timeout=2.0): returns when the thread has exited,
\* or when the timeout has run out with the thread still alive
StopJoin(c) ==
    /\ pc[c] = "stop_join"
    /\ \E timedOut \in BOOLEAN : JoinReturns(timedOut)
    /\ pc' = [pc EXCEPT ![c] = "stop_end"]
    /\ UNCHANGED <<now, extVars, cacheVars, interval, running_lock, stop_event,
                   monitoring_thread, thr, lastOp, foundRunning>>

\* stop() returns (having done nothing, or after the join)
StopReturn(c) ==
    /\ pc[c] \in {"stop_ret", "stop_end"}
    /\ running_lock' = Release(c)
    /\ pc' = [pc EXCEPT ![c] = "idle"]
    /\ lastOp' = "stop"
    /\ UNCHANGED <<now, extVars, cacheVars, interval, stop_event, monitoring_thread, thr, foundRunning>>

\* --------------------------------------------------------------- is_running
\* with self._running_lock: (the value returned is is_running)
IsRunningEnter(c) ==
    /\ pc[c] = "idle"
    /\ CanAcquire(c)
    /\ running_lock' = c
    /\ pc' = [pc EXCEPT ![c] = "is_running"]
    /\ UNCHANGED <<now, extVars, cacheVars, interval, stop_event, monitoring_thread, thr, lastOp,
                   foundRunning>>

IsRunningReturn(c) ==
    /\ pc[c] = "is_running"
    /\ running_lock' = Release(c)
    /\ pc' = [pc EXCEPT ![c] = "idle"]
    /\ UNCHANGED <<now, extVars, cacheVars, interval, stop_event, monitoring_thread, thr, lastOp,
                   foundRunning>>

\* -------------------------------------------------------- _monitoring_loop
\* _monitoring_loop returns (the while test fails, or a break): the thread is
\* no longer alive and its locals last_check and current_time are gone
Exit(r, cause) ==
    [r EXCEPT !.pc = "done", !.exit = cause, !.last_check = 0, !.current_time = 0,
              !.backoff = 0, !.jitter = 0]

\* a loop that never resets the counter
ResetOnSuccess_Keep(e) == e

\* "consecutive_errors = 0" at the end of the try block
ResetOnSuccess(e) == 0

Min(a, b) == IF a <= b THEN a ELSE b

\* a backoff that doubles without a ceiling
base_backoff_NoCeiling(i, n) == i * 2^n

\* backoff = min(self.interval * (2 ** consecutive_errors), self.interval * 10)
base_backoff(i, n) == Min(i * 2^n, i * 10)

\* time.time() % 1, the fraction of the current second: k / JitterSteps
Fractions == 0..(JitterSteps - 1)

\* (backoff * 0.1) * (time.time() % 1), counted in units of 1/(10 * JitterSteps)
\* of a second
jitter(backoff, k) == backoff * k

\* "backoff += (backoff * 0.1) * (time.time() % 1)" when the handler backs off
WithJitter(r, k) ==
    IF r.pc = "backoff" THEN [r EXCEPT !.jitter = jitter(r.backoff, k)] ELSE r

\* the except block with ">" in place of ">=" in the test of the ceiling
OnException_Gt(r) ==
    LET e == r.consecutive_errors + 1 IN
    IF e > max_consecutive_errors
    THEN Exit([r EXCEPT !.consecutive_errors = e, !.run = r.run + 1, !.failed = TRUE],
              "breaker")
    ELSE [r EXCEPT !.consecutive_errors = e, !.run = r.run + 1, !.failed = TRUE,
                   !.pc = "backoff", !.backoff = base_backoff(interval, e)]

\* the except block: the thread record after the handler has run
OnException(r) ==
    LET e == r.consecutive_errors + 1 IN
    IF e >= max_consecutive_errors
    THEN Exit([r EXCEPT !.consecutive_errors = e, !.run = r.run + 1, !.failed = TRUE],
              "breaker")
    ELSE [r EXCEPT !.consecutive_errors = e, !.run = r.run + 1, !.failed = TRUE,
                   !.pc = "backoff", !.backoff = base_backoff(interval, e)]

\* the test of the main interval with ">" in place of ">="
SnapshotDue_Gt(r) == r.current_time - r.last_check > interval

\* the test "current_time - last_check >= self.interval"
SnapshotDue(r) == r.current_time - r.last_check >= interval

LoopVarsUnchanged ==
    UNCHANGED <<now, extVars, cacheVars, interval, running_lock, stop_event,
                monitoring_thread, pc, lastOp, foundRunning>>

\* last_check = time.time(); consecutive_errors = 0
LoopInit(t) ==
    /\ thr[t].pc = "init"
    /\ thr' = [thr EXCEPT ![t].pc = "test", ![t].last_check = now,
                          ![t].consecutive_errors = 0]
    /\ LoopVarsUnchanged

\* a loop that never sees the stop event
stop_is_set_Never == FALSE

\* self._stop_event.is_set(), and the value self._stop_event.wait(...) returns
stop_is_set == stop_event

\* a loop whose while test is taken under _running_lock ("while self.is_running")
LoopTest_UnderLock(t) ==
    /\ thr[t].pc = "test"
    /\ running_lock = NoOwner
    /\ thr' = IF stop_is_set
              THEN [thr EXCEPT ![t] = Exit(thr[t], "stopped")]
              ELSE [thr EXCEPT ![t].pc = "alerts", ![t].current_time = now]
    /\ LoopVarsUnchanged

\* while not self._stop_event.is_set(): current_time = time.time()
LoopTest(t) ==
    /\ thr[t].pc = "test"
    /\ thr' = IF stop_is_set
              THEN [thr EXCEPT ![t] = Exit(thr[t], "stopped")]
              ELSE [thr EXCEPT ![t].pc = "alerts", ![t].current_time = now]
    /\ LoopVarsUnchanged

\* self.alerts(force_full_check=False): returns, or raises
LoopAlerts(t) ==
    /\ thr[t].pc = "alerts"
    /\ \E raises \in BOOLEAN, k \in Fractions :
          thr' = [thr EXCEPT ![t] = IF raises THEN WithJitter(OnException(thr[t]), k)
                                    ELSE [thr[t] EXCEPT !.pc = "clear"]]
    /\ LoopVarsUnchanged

\* self.cache.clear_expired(), then the test of the main interval
LoopClearExpired(t) ==
    /\ thr[t].pc = "clear"
    /\ cache' = clear_expired(cache, now)
    /\ cacheOp' = [op |-> "clear", time |-> now, before |-> cache]
    /\ thr' = [thr EXCEPT ![t].pc = IF SnapshotDue(thr[t]) THEN "state" ELSE "sleep"]
    /\ UNCHANGED <<now, extVars, lastSet, interval, running_lock, stop_event,
                   monitoring_thread, pc, lastOp, foundRunning>>

\* self.state(); last_check = current_time  -- or state() raises
LoopState(t) ==
    /\ thr[t].pc = "state"
    /\ \E raises \in BOOLEAN, k \in Fractions :
          thr' = [thr EXCEPT ![t] = IF raises THEN WithJitter(OnException(thr[t]), k)
                                    ELSE [thr[t] EXCEPT !.pc = "sleep",
                                                        !.last_check = thr[t].current_time]]
    /\ LoopVarsUnchanged

\* self._stop_event.wait(min(1, interval / 10)) returns; consecutive_errors = 0
LoopSleep(t) ==
    /\ thr[t].pc = "sleep"
    /\ thr' = [thr EXCEPT ![t].pc = "test",
                          ![t].consecutive_errors = ResetOnSuccess(thr[t].consecutive_errors),
                          ![t].run = 0,
                          ![t].current_time = 0]
    /\ LoopVarsUnchanged

\* if self._stop_event.wait(backoff): break
LoopBackoff(t) ==
    /\ thr[t].pc = "backoff"
    /\ thr' = IF stop_is_set
              THEN [thr EXCEPT ![t] = Exit(thr[t], "stopped")]
              ELSE [thr EXCEPT ![t].pc = "test", ![t].current_time = 0,
                                    ![t].backoff = 0, ![t].jitter = 0]
    /\ LoopVarsUnchanged

\* the clock of the scheduler specification
Tick ==
    /\ now < MaxTime
    /\ now' = now + 1
    /\ UNCHANGED <<cacheVars, schedVars, extVars>>

\* ================================================ the Monitor object itself
\* alerts(state=None): no State is supplied
NoState == [given |-> FALSE, temperatures |-> <<>>]

\* no state()/alerts() call has been made yet
NoCall == [op |-> "none", force |-> FALSE, arg |-> NoState, raised |-> FALSE,
           called |-> {}, tiers |-> {}, snap |-> <<>>, alerts |-> <<>>,
           slowFresh |-> FALSE, blocked |-> 0]

\* a Monitor the scheduler and the cache are exercised with
DefaultCfg == [cpu_limit |-> 0, ram_limit |-> 0, disk_limit |-> 0,
               history_size |-> 1, on_alert |-> "ok"]

\* a host on which no state()/alerts() call is made
NoEnv == [pcts |-> {}, dpcts |-> {}, mounts |-> <<>>, temps |-> {}, args |-> {},
          times |-> {}, failing |-> {}]

\* no quick_monitor call has been made
NoQuick == [made |-> FALSE, args |-> <<>>, environ |-> <<>>]

\* a thread that is inside no state() or alerts() call of its own
NoJob == [op |-> "none", pc |-> "idle", got |-> <<>>, seen |-> <<>>, snap |-> <<>>]

\* system_monitor.Monitor.__init__ : _running = False, no loop thread started
LegacyMonitor == [running |-> FALSE,
                  loop |-> [t \in ThreadIds |-> [pc |-> "new", laps |-> 0]],
                  calls |-> <<>>]

\* Monitor.__init__ : history = deque(maxlen=history_size), empty; no
\* monitor_context block entered, no quick_monitor call, no caller thread
FreshMonitor ==
    /\ history = <<>>
    /\ taken = <<>>
    /\ lastCall = NoCall
    /\ deliveries = <<>>
    /\ ctx = "out"
    /\ qm = NoQuick
    /\ job = [w \in Workers |-> NoJob]
    /\ legacy = LegacyMonitor

MonInit ==
    /\ cfg = DefaultCfg
    /\ env = NoEnv
    /\ FreshMonitor

\* a Monitor just constructed, its loop not started
NewMonitor ==
    /\ now = 0
    /\ CacheInit
    /\ SchedInit
    /\ interval = 1
    /\ WorkInit
    /\ FreshMonitor

\* ========================================================== specifications
Init ==
    /\ now = 0
    /\ CacheInit
    /\ SchedInit
    /\ WorkInit
    /\ MonInit

\* the scheduler: callers of start / stop / is_running and the loop threads
Next ==
    \/ \E c \in Callers : StartCheck(c)
    \/ \E c \in Callers : StartLaunch(c)
    \/ \E c \in Callers : StartReturn(c)
    \/ \E c \in Callers : StopCheck(c)
    \/ \E c \in Callers : StopJoin(c)
    \/ \E c \in Callers : StopReturn(c)
    \/ \E c \in Callers : IsRunningEnter(c)
    \/ \E c \in Callers : IsRunningReturn(c)
    \/ \E t \in ThreadIds : LoopInit(t)
    \/ \E t \in ThreadIds : LoopTest(t)
    \/ \E t \in ThreadIds : LoopAlerts(t)
    \/ \E t \in ThreadIds : LoopClearExpired(t)
    \/ \E t \in ThreadIds : LoopState(t)
    \/ \E t \in ThreadIds : LoopSleep(t)
    \/ \E t \in ThreadIds : LoopBackoff(t)
    \/ Tick

Spec == Init /\ [][Next]_vars

\* a step of the loop thread t
LoopStep(t) ==
    \/ LoopInit(t)
    \/ LoopTest(t)
    \/ LoopAlerts(t)
    \/ LoopClearExpired(t)
    \/ LoopState(t)
    \/ LoopSleep(t)
    \/ LoopBackoff(t)

\* the cache alone: set / get / clear_expired called at arbitrary times
CacheNext ==
    \/ \E k \in Keys, v \in Values, ttl \in Ttls : CacheSet(k, v, ttl)
    \/ \E k \in Keys : CacheGet(k)
    \/ CacheClearExpired
    \/ CacheTick

CacheSpec == Init /\ [][CacheNext]_vars

TypeOK ==
    /\ now \in Times
    /\ stop_event \in BOOLEAN
    /\ monitoring_thread \in {None} \cup ThreadIds
    /\ running_lock \in {NoOwner} \cup Callers
    /\ \A t \in ThreadIds : thr[t].consecutive_errors \in 0..max_consecutive_errors


\* ==================================================== MetricsCache._lock
\* the cache called by several threads, each call a "with self._lock" block

\* the cache without its lock
CacheCanAcquire_NoLock(w) == TRUE

\* Lock.acquire of MetricsCache._lock (entry of a "with self._lock" block)
CacheCanAcquire(w) == cache_lock = NoOwner

\* leaving the "with self._lock" block
CacheRelease(w) == IF cache_lock = w THEN NoOwner ELSE cache_lock

\* "for k in expired_keys: del self.cache[k]"
delete_keys(c, ks) == [x \in DOMAIN c \ ks |-> c[x]]

\* what the sets made so far say a get of k at time t returns
Expected(k, t) ==
    IF k \in DOMAIN lastSet /\ t - lastSet[k].time <= lastSet[k].ttl
    THEN lastSet[k].value ELSE None

WorkUnchanged == UNCHANGED <<now, cacheOp, schedVars, monVars, appVars>>

\* get: with self._lock: the test and the read of the entry
WGetEnter(w, k) ==
    /\ wk[w].pc = "idle"
    /\ CacheCanAcquire(w)
    /\ cache_lock' = w
    /\ wk' = [wk EXCEPT ![w] = [IdleWorker EXCEPT !.pc = "get", !.key = k,
                                                  !.ret = get(cache, k, now),
                                                  !.exp = Expected(k, now)]]
    /\ UNCHANGED <<cache, lastSet>>
    /\ WorkUnchanged

\* set: with self._lock: self.cache[key] = CachedMetric(value, time.time(), ttl)
WSetEnter(w, k, v, ttl) ==
    /\ wk[w].pc = "idle"
    /\ CacheCanAcquire(w)
    /\ cache_lock' = w
    /\ cache' = set(cache, k, v, ttl, now)
    /\ lastSet' = [x \in DOMAIN lastSet \cup {k} |->
                     IF x = k THEN [value |-> v, ttl |-> ttl, time |-> now] ELSE lastSet[x]]
    /\ wk' = [wk EXCEPT ![w] = [IdleWorker EXCEPT !.pc = "set", !.key = k]]
    /\ WorkUnchanged

\* clear_expired: with self._lock: current_time = time.time(); expired_keys = [...]
WClearScan(w) ==
    /\ wk[w].pc = "idle"
    /\ CacheCanAcquire(w)
    /\ cache_lock' = w
    /\ wk' = [wk EXCEPT ![w] = [IdleWorker EXCEPT !.pc = "clear_scan",
                                                  !.keys = expired_keys(cache, now)]]
    /\ UNCHANGED <<cache, lastSet>>
    /\ WorkUnchanged

\* clear_expired: for k in expired_keys: del self.cache[k]
WClearDelete(w) ==
    /\ wk[w].pc = "clear_scan"
    /\ cache' = delete_keys(cache, wk[w].keys)
    /\ wk' = [wk EXCEPT ![w].pc = "clear_del"]
    /\ UNCHANGED <<cache_lock, lastSet>>
    /\ WorkUnchanged

\* the end of the "with self._lock" block: the call returns
WLeave(w) ==
    /\ wk[w].pc \in {"get", "set", "clear_del"}
    /\ cache_lock' = CacheRelease(w)
    /\ wk' = [wk EXCEPT ![w] = IdleWorker]
    /\ UNCHANGED <<cache, lastSet>>
    /\ WorkUnchanged

\* the clock of the specifications of the worker threads
WorkTick ==
    /\ now < MaxTime
    /\ now' = now + 1
    /\ UNCHANGED <<cacheVars, schedVars, extVars>>

ConcNext ==
    \/ \E w \in Workers, k \in Keys : WGetEnter(w, k)
    \/ \E w \in Workers, k \in Keys, v \in Values, ttl \in Ttls : WSetEnter(w, k, v, ttl)
    \/ \E w \in Workers : WClearScan(w)
    \/ \E w \in Workers : WClearDelete(w)
    \/ \E w \in Workers : WLeave(w)
    \/ WorkTick

\* get, set and clear_expired called concurrently by the worker threads
ConcSpec == Init /\ [][ConcNext]_vars

\* ============================================== the three tiers of metrics
Groups == {"fast", "medium", "slow"}

\* cache_key of _get_fast_metrics, _get_medium_metrics, _get_slow_metrics
cache_key(g) == IF g = "fast" THEN "fast_metrics"
                ELSE IF g = "medium" THEN "medium_metrics" ELSE "slow_metrics"

\* update_intervals with the same ttl for every group
update_intervals_Same(g) == 1

\* Monitor.update_intervals: the ttl of each group, in seconds
update_intervals(g) == IF g = "fast" THEN 1 ELSE IF g = "medium" THEN 30 ELSE 300

\* the MetricSource calls of a refresh of each group, in the order of the code
SourceCalls(g) ==
    IF g = "fast" THEN <<"cpu_percent", "virtual_memory", "network_interfaces">>
    ELSE IF g = "medium" THEN <<"temperatures", "fans", "processes">>
    ELSE <<"disk_partitions", "disk_usage", "gpus", "uptime", "battery", "network">>

\* the calls whose exception the refresh catches itself (try ... except: pass)
CaughtCalls == {"disk_usage"}

\* the instants the clock visits while the group g is exercised: up to MaxLap
\* seconds after the start and after the ttl of the group has elapsed
TimePoints(g) == {b + d : b \in {0, update_intervals(g)}, d \in 0..MaxLap}

\* a refresh that keeps the cache lock from the get to the set
CacheReleaseAfterGet_Keep(w) == cache_lock

\* leaving the "with self._lock" block of get, inside _get_*_metrics
CacheReleaseAfterGet(w) == CacheRelease(w)

\* cached = self.cache.get(cache_key): with self._lock, the test and the read
FetchGetEnter(w, g) ==
    /\ wk[w].pc = "idle"
    /\ CacheCanAcquire(w)
    /\ cache_lock' = w
    /\ wk' = [wk EXCEPT ![w] =
                [IdleWorker EXCEPT !.pc = "f_get", !.g = g, !.key = cache_key(g),
                                   !.ret = get(cache, cache_key(g), now),
                                   !.exp = IF cache_key(g) \in DOMAIN cache
                                              /\ now - cache[cache_key(g)].timestamp
                                                   <= cache[cache_key(g)].ttl
                                           THEN cache[cache_key(g)].value ELSE None]]
    /\ UNCHANGED <<cache, lastSet>>
    /\ WorkUnchanged

\* get returns; "if cached is not None: return cached", else the refresh starts
FetchGetLeave(w) ==
    /\ wk[w].pc = "f_get"
    /\ cache_lock' = CacheReleaseAfterGet(w)
    /\ wk' = [wk EXCEPT ![w].pc = IF wk[w].ret # None THEN "f_ret" ELSE "f_src"]
    /\ UNCHANGED <<cache, lastSet>>
    /\ WorkUnchanged

\* a refresh that stores what it has gathered when a source call raises
FetchSource_StorePartial(w) ==
    /\ wk[w].pc = "f_src"
    /\ LET g == wk[w].g
           call == SourceCalls(g)[wk[w].calls + 1]
       IN \E raises \in BOOLEAN, v \in Values :
            /\ wk' = [wk EXCEPT ![w] =
                       IF raises /\ call \notin CaughtCalls
                       THEN [IdleWorker EXCEPT !.pc = "f_raised", !.g = g]
                       ELSE IF wk[w].calls + 1 = Len(SourceCalls(g))
                       THEN [wk[w] EXCEPT !.pc = "f_set", !.calls = wk[w].calls + 1,
                                          !.val = v]
                       ELSE [wk[w] EXCEPT !.calls = wk[w].calls + 1]]
            /\ cache' = IF raises /\ call \notin CaughtCalls
                        THEN set(cache, wk[w].key, v, update_intervals(g), now)
                        ELSE cache
    /\ UNCHANGED <<cache_lock, lastSet>>
    /\ WorkUnchanged

\* one MetricSource call of the refresh: it returns, or it raises; an exception
\* that is not caught leaves _get_*_metrics; the last call completes the bundle
FetchSource(w) ==
    /\ wk[w].pc = "f_src"
    /\ LET g == wk[w].g
           call == SourceCalls(g)[wk[w].calls + 1]
       IN \E raises \in BOOLEAN, v \in Values :
            wk' = [wk EXCEPT ![w] =
                     IF raises /\ call \notin CaughtCalls
                     THEN [IdleWorker EXCEPT !.pc = "f_raised", !.g = g]
                     ELSE IF wk[w].calls + 1 = Len(SourceCalls(g))
                     THEN [wk[w] EXCEPT !.pc = "f_set", !.calls = wk[w].calls + 1,
                                        !.val = v]
                     ELSE [wk[w] EXCEPT !.calls = wk[w].calls + 1]]
    /\ UNCHANGED <<cache, cache_lock, lastSet>>
    /\ WorkUnchanged

\* self.cache.set(cache_key, metrics, self.update_intervals[...]): with self._lock
FetchSetEnter(w) ==
    /\ wk[w].pc = "f_set"
    /\ CacheCanAcquire(w) \/ cache_lock = w
    /\ cache_lock' = w
    /\ cache' = set(cache, wk[w].key, wk[w].val, update_intervals(wk[w].g), now)
    /\ wk' = [wk EXCEPT ![w].pc = "f_setd"]
    /\ UNCHANGED lastSet
    /\ WorkUnchanged

\* set returns; "return metrics"
FetchSetLeave(w) ==
    /\ wk[w].pc = "f_setd"
    /\ cache_lock' = CacheRelease(w)
    /\ wk' = [wk EXCEPT ![w].pc = "f_ret", ![w].ret = wk[w].val]
    /\ UNCHANGED <<cache, lastSet>>
    /\ WorkUnchanged

\* _get_*_metrics has returned wk[w].ret, or raised: the thread goes on
FetchDone(w) ==
    /\ wk[w].pc \in {"f_ret", "f_raised"}
    /\ wk' = [wk EXCEPT ![w] = IdleWorker]
    /\ UNCHANGED <<cache, cache_lock, lastSet>>
    /\ WorkUnchanged

\* a delivery thread of alerts() runs _deliver_alert: the call of the sink
SinkDeliverEnter(w) ==
    /\ wk[w].pc = "idle"
    /\ wk' = [wk EXCEPT ![w].pc = "deliver"]
    /\ UNCHANGED <<cache, cache_lock, lastSet>>
    /\ WorkUnchanged

\* the sink has returned or raised ("except Exception: pass"): the thread ends
SinkDeliverLeave(w) ==
    /\ wk[w].pc = "deliver"
    /\ wk' = [wk EXCEPT ![w].pc = "idle"]
    /\ UNCHANGED <<cache, cache_lock, lastSet>>
    /\ WorkUnchanged

\* the group g is the one this behaviour exercises: no other group has an
\* entry or a call in progress (each group reads and writes its own key only)
OneGroup(g) ==
    /\ \A k \in DOMAIN cache : k = cache_key(g)
    /\ \A w \in Workers : wk[w].g \in {"", g}

\* the clock of the tiers: time.time() advances between two steps
TierTick(g) ==
    /\ cache_key(g) \in DOMAIN cache
    /\ \E t \in TimePoints(g) : t > now /\ now' = t
    /\ UNCHANGED <<cacheVars, schedVars, extVars>>

TierNext ==
    \/ \E w \in Workers, g \in Groups : OneGroup(g) /\ FetchGetEnter(w, g)
    \/ \E w \in Workers : FetchGetLeave(w)
    \/ \E w \in Workers : FetchSource(w)
    \/ \E w \in Workers : FetchSetEnter(w)
    \/ \E w \in Workers : FetchSetLeave(w)
    \/ \E w \in Workers : FetchDone(w)
    \/ \E w \in Workers : SinkDeliverEnter(w)
    \/ \E w \in Workers : SinkDeliverLeave(w)
    \/ \E g \in Groups : TierTick(g)

\* _get_fast_metrics, _get_medium_metrics and _get_slow_metrics called by the
\* worker threads
TierInit ==
    /\ NewMonitor
    /\ cfg = DefaultCfg
    /\ env = NoEnv

TierSpec == TierInit /\ [][TierNext]_vars

\* ============================================= state() and alerts() calls
\* the partitions psutil.disk_partitions() lists, in its order
Mounts == <<"/", "/home">>

\* the sensors psutil.sensors_temperatures() lists, in its order
Sensors == <<"coretemp", "acpitz">>

\* a sensor entry whose "high" or "critical" is None
NoThreshold == -1

Pcts == 0..MaxPct
Temps == 0..MaxTemp
Thresholds == {NoThreshold} \cup Temps

\* the entries of a sensor: current, high, critical
TempEntries == [current : Temps, high : Thresholds, critical : Thresholds]

\* the temperature tables with at most two entries drawn from E: sensor ->
\* list of entries, in the order of the dict; two sensors report alike
TempTables(E) ==
    {<<>>}
    \cup {<<[sensor |-> Sensors[1], entries |-> <<e>>]>> : e \in E}
    \cup {<<[sensor |-> Sensors[1], entries |-> <<e1, e2>>]>> : e1 \in E, e2 \in E}
    \cup {<<[sensor |-> Sensors[1], entries |-> <<e>>],
            [sensor |-> Sensors[2], entries |-> <<e>>]>> : e \in E}

\* the disks dict a refresh can build: the partitions whose disk_usage did
\* not raise, each with its percent (keyed by the index of the partition)
DiskTables(mounts, pcts) ==
    UNION {[S -> pcts] : S \in SUBSET (DOMAIN mounts)}

\* the bundle of the fast group: cpu and ram
FastBundles(pcts) == [cpu : pcts, ram : pcts]

\* "is not None" of cache.get(key): the entry is there and has not expired
Cached(c, k, t) == k \in DOMAIN c /\ ~is_expired(c[k], t)

\* _get_*_metrics on the cache c when the sources would report "fresh": the
\* cache afterwards, the bundle returned, and whether the sources were called
Tier(c, g, fresh) ==
    IF Cached(c, cache_key(g), now)
    THEN [cache |-> c, bundle |-> get(c, cache_key(g), now), called |-> FALSE]
    ELSE [cache |-> set(c, cache_key(g), fresh, update_intervals(g), now),
          bundle |-> fresh, called |-> TRUE]

\* State(...) with a timestamp that is not the current time
State_StaleStamp(fast, medium, slow, t) ==
    [cpu |-> fast.cpu, ram |-> fast.ram, disks |-> slow, temperatures |-> medium,
     timestamp |-> t - 1]

\* s = State(cpu=fast['cpu'], ..., timestamp=datetime.datetime.now())
State(fast, medium, slow, t) ==
    [cpu |-> fast.cpu, ram |-> fast.ram, disks |-> slow, temperatures |-> medium,
     timestamp |-> t]

\* the last n elements of the sequence q
LastN(q, n) == IF Len(q) <= n THEN q ELSE SubSeq(q, Len(q) - n + 1, Len(q))

\* a deque that refuses the new element when it is full
deque_append_DropNew(q, x, maxlen) == IF Len(q) < maxlen THEN Append(q, x) ELSE q

\* deque(maxlen).append(x): the oldest element leaves when the deque is full
deque_append(q, x, maxlen) ==
    IF maxlen = 0 THEN q
    ELSE IF Len(q) < maxlen THEN Append(q, x) ELSE Append(Tail(q), x)

\* "value >= limit" in place of "value > limit"
Exceeds_Ge(value, limit) == value >= limit

\* fast_metrics['cpu'] > self.cpu_limit, and the same test for ram and disks
Exceeds(value, limit) == value > limit

\* the ram test made before the cpu test
FastAlerts_RamFirst(fast) ==
    (IF Exceeds(fast.ram, cfg.ram_limit)
     THEN <<[kind |-> "ram", who |-> "", value |-> fast.ram]>> ELSE <<>>)
    \o (IF Exceeds(fast.cpu, cfg.cpu_limit)
        THEN <<[kind |-> "cpu", who |-> "", value |-> fast.cpu]>> ELSE <<>>)

\* the alerts of the fast metrics: cpu, then ram
FastAlerts(fast) ==
    (IF Exceeds(fast.cpu, cfg.cpu_limit)
     THEN <<[kind |-> "cpu", who |-> "", value |-> fast.cpu]>> ELSE <<>>)
    \o (IF Exceeds(fast.ram, cfg.ram_limit)
        THEN <<[kind |-> "ram", who |-> "", value |-> fast.ram]>> ELSE <<>>)

\* for disk in slow_metrics['disks'].values(): from the partition i on
RECURSIVE DiskAlerts(_, _)
DiskAlerts(disks, i) ==
    IF i > Len(Mounts) THEN <<>>
    ELSE (IF i \in DOMAIN disks /\ Exceeds(disks[i], cfg.disk_limit)
          THEN <<[kind |-> "disk", who |-> Mounts[i], value |-> disks[i]]>>
          ELSE <<>>)
         \o DiskAlerts(disks, i + 1)

\* the disk test made whenever force_full_check is set, and only then
check_slow_ForceOnly(force, fresh) == force

\* "force_full_check or self.cache.get('slow_metrics') is None"
check_slow(force, fresh) == force \/ ~fresh

\* temp_info.get(name) as a condition: None and 0 are false
Truthy(x) == x # NoThreshold /\ x # 0

\* both tests made one after the other ("if" in place of "elif")
EntryAlerts_Both(sensor, e) ==
    (IF Truthy(e.critical) /\ e.current >= e.critical
     THEN <<[kind |-> "critical", who |-> sensor, value |-> e.current]>> ELSE <<>>)
    \o (IF Truthy(e.high) /\ e.current >= e.high
        THEN <<[kind |-> "high", who |-> sensor, value |-> e.current]>> ELSE <<>>)

\* the "if ... elif ..." of one temp_info
EntryAlerts(sensor, e) ==
    IF Truthy(e.critical) /\ e.current >= e.critical
    THEN <<[kind |-> "critical", who |-> sensor, value |-> e.current]>>
    ELSE IF Truthy(e.high) /\ e.current >= e.high
    THEN <<[kind |-> "high", who |-> sensor, value |-> e.current]>>
    ELSE <<>>

\* for temp_info in sensor_data: from the entry j on
RECURSIVE SensorAlerts(_, _, _)
SensorAlerts(sensor, entries, j) ==
    IF j > Len(entries) THEN <<>>
    ELSE EntryAlerts(sensor, entries[j]) \o SensorAlerts(sensor, entries, j + 1)

\* for sensor_name, sensor_data in state.temperatures.items(): from the i-th on
RECURSIVE TempAlerts(_, _)
TempAlerts(table, i) ==
    IF i > Len(table) THEN <<>>
    ELSE SensorAlerts(table[i].sensor, table[i].entries, 1) \o TempAlerts(table, i + 1)

\* one thread per alert, started in the order of the list
spawn(alerts) ==
    [i \in 1..Len(alerts) |-> [msg |-> alerts[i], status |-> "started", attempts |-> 0]]

MonUnchanged ==
    UNCHANGED <<now, cacheOp, lastSet, schedVars, lockVars, cfg, env, appVars>>

\* Monitor.state(): the three tiers, the State, the append to history; a
\* source of the group "fail" raises when that group is refreshed (what the
\* call does to the Monitor, whichever thread makes it)
StateEffect(ff, fm, fs, fail) ==
    /\ LET f == Tier(cache, "fast", ff)
           m == Tier(f.cache, "medium", fm)
           sl == Tier(m.cache, "slow", fs)
           s == State(f.bundle, m.bundle, sl.bundle, now)
           raised(c, grps) ==
               /\ cache' = c
               /\ lastCall' = [NoCall EXCEPT !.op = "state", !.raised = TRUE,
                                             !.called = grps, !.tiers = grps \ {fail}]
               /\ UNCHANGED <<history, taken>>
       IN IF f.called /\ fail = "fast" THEN raised(cache, {"fast"})
          ELSE IF m.called /\ fail = "medium"
          THEN raised(f.cache, {"medium"} \cup (IF f.called THEN {"fast"} ELSE {}))
          ELSE IF sl.called /\ fail = "slow"
          THEN raised(m.cache, {"slow"} \cup (IF f.called THEN {"fast"} ELSE {})
                                        \cup (IF m.called THEN {"medium"} ELSE {}))
          ELSE /\ cache' = sl.cache
               /\ history' = deque_append(history, s, cfg.history_size)
               /\ taken' = Append(taken, s)
               /\ lastCall' = [NoCall EXCEPT
                                 !.op = "state",
                                 !.called = (IF f.called THEN {"fast"} ELSE {})
                                            \cup (IF m.called THEN {"medium"} ELSE {})
                                            \cup (IF sl.called THEN {"slow"} ELSE {}),
                                 !.tiers = Groups,
                                 !.snap = <<s>>]
    /\ UNCHANGED deliveries

\* a state() call made by a thread of the application
StateCall(ff, fm, fs, fail) ==
    /\ Len(taken) < MaxCalls
    /\ StateEffect(ff, fm, fs, fail)
    /\ MonUnchanged

\* Monitor.alerts(state, force_full_check): the fast test, the disk test, the
\* temperature test, one delivery thread per alert, the list returned
AlertsEffect(arg, force, ff, fs, fail) ==
    /\ LET f == Tier(cache, "fast", ff)
           fresh == Cached(f.cache, "slow_metrics", now)
           wasFresh == /\ "slow_metrics" \in DOMAIN f.cache
                       /\ now - f.cache["slow_metrics"].timestamp
                            <= f.cache["slow_metrics"].ttl
           sl == Tier(f.cache, "slow", fs)
           alerts == FastAlerts(f.bundle)
                     \o (IF check_slow(force, fresh) THEN DiskAlerts(sl.bundle, 1)
                         ELSE <<>>)
                     \o (IF arg.given THEN TempAlerts(arg.temperatures, 1) ELSE <<>>)
           call == [NoCall EXCEPT !.op = "alerts", !.force = force, !.arg = arg,
                                  !.blocked = Cardinality({i \in DOMAIN deliveries :
                                                  deliveries[i].status = "blocked"})]
       IN IF f.called /\ fail = "fast"
          THEN /\ cache' = cache
               /\ lastCall' = [call EXCEPT !.raised = TRUE, !.called = {"fast"}]
               /\ UNCHANGED deliveries
          ELSE IF check_slow(force, fresh) /\ sl.called /\ fail = "slow"
          THEN /\ cache' = f.cache
               /\ lastCall' = [call EXCEPT !.raised = TRUE, !.slowFresh = wasFresh,
                                           !.tiers = {"fast"},
                                           !.called = {"slow"} \cup
                                               (IF f.called THEN {"fast"} ELSE {})]
               /\ UNCHANGED deliveries
          ELSE /\ cache' = IF check_slow(force, fresh) THEN sl.cache ELSE f.cache
               /\ deliveries' = spawn(alerts)
               /\ lastCall' =
                    [call EXCEPT
                       !.slowFresh = wasFresh,
                       !.alerts = alerts,
                       !.tiers = {"fast"} \cup (IF check_slow(force, fresh)
                                                THEN {"slow"} ELSE {}),
                       !.called = (IF f.called THEN {"fast"} ELSE {})
                                  \cup (IF check_slow(force, fresh) /\ sl.called
                                        THEN {"slow"} ELSE {})]
    /\ UNCHANGED <<history, taken>>

\* an alerts() call made by a thread of the application
AlertsCall(arg, force, ff, fs, fail) ==
    /\ AlertsEffect(arg, force, ff, fs, fail)
    /\ MonUnchanged

\* a failed delivery that takes the other deliveries of the batch with it
AfterFailure_Abort(d, i) ==
    [j \in DOMAIN d |-> IF d[j].status = "started" /\ j # i
                        THEN [d[j] EXCEPT !.status = "aborted"] ELSE d[j]]

\* "except Exception as e: self.logger.error(...)": the failure of the i-th
\* delivery stays in its own thread
AfterFailure(d, i) == d

\* what a call of the sink can come to: it returns, it raises, or it does not
\* come back
SinkOutcomes ==
    IF cfg.on_alert = "raises" THEN {"failed"}
    ELSE IF cfg.on_alert = "may_block" THEN {"delivered", "blocked"}
    ELSE {"delivered"}

\* deliveries made one after the other, each waiting for the ones before it
CanDeliver_InTurn(i) ==
    \A j \in DOMAIN deliveries : j < i => deliveries[j].status \in {"delivered", "failed"}

\* alert_thread.start(): the thread of the i-th alert runs on its own
CanDeliver(i) == TRUE

\* the delivery thread i runs _deliver_alert: self._on_alert(message)
Deliver(i) ==
    /\ i \in DOMAIN deliveries
    /\ deliveries[i].status = "started"
    /\ CanDeliver(i)
    /\ \E o \in SinkOutcomes :
         LET d == [deliveries EXCEPT ![i].attempts = deliveries[i].attempts + 1,
                                     ![i].status = o]
         IN deliveries' = IF o = "failed" THEN AfterFailure(d, i) ELSE d
    /\ UNCHANGED <<cache, history, taken, lastCall>>
    /\ MonUnchanged

\* time passes between two calls
MonTick ==
    /\ \E t \in env.times : t > now /\ now' = t
    /\ UNCHANGED <<cacheVars, schedVars, extVars>>

\* the sources that can raise in a call, or none of them: those of the groups
\* that are absent or expired, the only ones that are asked
Failures == {"none"} \cup {g \in env.failing : ~Cached(cache, cache_key(g), now)}

\* what the sources of the group g can report when they are asked, that is
\* when the entry of the group is absent or expired (S); otherwise they are
\* not asked and the bundle is the cached one
Reports(g, S) ==
    IF Cached(cache, cache_key(g), now) THEN {cache[cache_key(g)].value} ELSE S

StateCalls ==
    \E ff \in Reports("fast", FastBundles(env.pcts)),
       fm \in Reports("medium", env.temps),
       fs \in Reports("slow", DiskTables(env.mounts, env.dpcts)),
       fail \in Failures :
        StateCall(ff, fm, fs, fail)

AlertsCalls ==
    \E arg \in {NoState} \cup env.args, force \in BOOLEAN,
       ff \in Reports("fast", FastBundles(env.pcts)),
       fs \in Reports("slow", DiskTables(env.mounts, env.dpcts)),
       fail \in Failures :
        AlertsCall(arg, force, ff, fs, fail)

\* ---------------------------------------------- state() and the history
HistInit ==
    /\ NewMonitor
    /\ cfg \in {[DefaultCfg EXCEPT !.history_size = n] : n \in 0..MaxHist}
    /\ env = [pcts |-> {MaxPct}, dpcts |-> {}, mounts |-> <<>>, temps |-> {<<>>},
              args |-> {}, times |-> TimePoints("fast"), failing |-> {"medium"}]

HistNext == StateCalls \/ AlertsCalls \/ MonTick

HistSpec == HistInit /\ [][HistNext]_vars

\* ------------------------------------------- alerts() on cpu, ram and disks
\* a State whose temperatures dict is empty
EmptyState == [given |-> TRUE, temperatures |-> <<>>]

\* the limits the Monitor is constructed with: all 0, or cpu_limit at l and
\* ram_limit at the next percent
Limits ==
    {[DefaultCfg EXCEPT !.cpu_limit = l, !.ram_limit = (l + 1) % (MaxPct + 1)] :
        l \in Pcts}
    \cup {DefaultCfg}

\* any cpu and ram, one disk and it is full, calls up to the instant the fast
\* entry has expired
AlertInit ==
    /\ NewMonitor
    /\ cfg \in Limits
    /\ env = [pcts |-> Pcts, dpcts |-> {MaxPct}, mounts |-> <<Mounts[1]>>,
              temps |-> {<<>>}, args |-> {EmptyState}, times |-> TimePoints("fast"),
              failing |-> {"slow"}]

AlertNext == AlertsCalls \/ MonTick

AlertSpec == AlertInit /\ [][AlertNext]_vars

\* ------------------------------------------------- alerts() and the disks
\* any usage of the disks and any disk_limit, cpu and ram at their limit, calls
\* up to the instant the slow entry has expired
DiskInit ==
    /\ NewMonitor
    /\ cfg \in {[DefaultCfg EXCEPT !.disk_limit = l] : l \in Pcts}
    /\ env = [pcts |-> {0}, dpcts |-> Pcts, mounts |-> Mounts, temps |-> {<<>>},
              args |-> {}, times |-> TimePoints("slow"),
              failing |-> {"slow"}]

DiskNext == AlertsCalls \/ MonTick

DiskSpec == DiskInit /\ [][DiskNext]_vars

\* ------------------------------------------ alerts() and the temperatures
\* one State with any table of temperatures is supplied, or none; cpu, ram at 0
TempInit ==
    /\ NewMonitor
    /\ cfg = DefaultCfg
    /\ env \in {[pcts |-> {0}, dpcts |-> {}, mounts |-> <<>>, temps |-> {<<>>},
                 args |-> {[given |-> TRUE, temperatures |-> t]}, times |-> {},
                 failing |-> {}] : t \in TempTables(TempEntries)}

TempNext == AlertsCalls

TempSpec == TempInit /\ [][TempNext]_vars

\* --------------------------------------------------- alerts() and the sink
\* a sink that works, or one that raises on every delivery; all limits 0, cpu
\* and ram at 0 or full, every disk full, sources that do not raise
SinkInit ==
    /\ NewMonitor
    /\ cfg \in {[DefaultCfg EXCEPT !.on_alert = b] : b \in {"ok", "raises"}}
    /\ env = [pcts |-> {0, MaxPct}, dpcts |-> {MaxPct}, mounts |-> Mounts,
              temps |-> {<<>>}, args |-> {}, times |-> TimePoints("fast"),
              failing |-> {}]

SinkNext ==
    \/ AlertsCalls
    \/ \E i \in DOMAIN deliveries : Deliver(i)
    \/ MonTick

SinkSpec == SinkInit /\ [][SinkNext]_vars

\* ---------------------------------------------- the order of the alerts
\* a sensor entry at its "high" threshold, and one with no threshold
OrderEntries ==
    {[current |-> 1, high |-> 1, critical |-> NoThreshold],
     [current |-> 0, high |-> NoThreshold, critical |-> NoThreshold]}

\* all limits 0, cpu, ram and each disk at 0 or full, any table of the two
\* entries supplied, or no State
OrderInit ==
    /\ NewMonitor
    /\ cfg = DefaultCfg
    /\ env = [pcts |-> {0, MaxPct}, dpcts |-> {0, MaxPct}, mounts |-> Mounts,
              temps |-> {<<>>},
              args |-> {[given |-> TRUE, temperatures |-> t] :
                           t \in TempTables(OrderEntries)},
              times |-> TimePoints("fast"), failing |-> {}]

OrderNext == AlertsCalls \/ MonTick

OrderSpec == OrderInit /\ [][OrderNext]_vars

\* ------------------------------------------------ the limits of a Monitor
\* self.cpu_limit = cpu_limit, self.ram_limit = ram_limit, self.disk_limit =
\* disk_limit: the arguments are stored as they come
MonitorLimits(cpu_limit, ram_limit, disk_limit) ==
    [DefaultCfg EXCEPT !.cpu_limit = cpu_limit, !.ram_limit = ram_limit,
                       !.disk_limit = disk_limit]

\* limits a caller can pass: below the percent range, its two ends, above it
GivenLimits == {-1, 0, 100, 101}

\* Monitor(cpu_limit, ram_limit, disk_limit) with any of the limits, on a host
\* whose cpu and ram are at 0 or full
CtorInit ==
    /\ NewMonitor
    /\ \E c \in GivenLimits, r \in GivenLimits, d \in GivenLimits :
          cfg = MonitorLimits(c, r, d)
    /\ env = [pcts |-> {0, MaxPct}, dpcts |-> {MaxPct}, mounts |-> <<Mounts[1]>>,
              temps |-> {<<>>}, args |-> {}, times |-> {}, failing |-> {}]

CtorNext == AlertsCalls

CtorSpec == CtorInit /\ [][CtorNext]_vars

\* -------------------------------------------------------- monitor_context
\* the thread that runs the with-block
CtxCaller == 1

\* a context manager that stops the monitor only when the body ends normally
\* (no try ... finally)
StopsOnLeave_NormalOnly(how) == how = "normal"

\* "finally: monitor.stop()": whichever way the body is left
StopsOnLeave(how) == TRUE

\* with monitor_context(...) as monitor: monitor = quick_monitor(...)
CtxBegin ==
    /\ ctx = "out"
    /\ ctx' = "in"
    /\ UNCHANGED <<now, cacheVars, schedVars, lockVars, monVars, qm, job, legacy>>

\* try: monitor.start()
CtxStart ==
    /\ ctx = "in"
    /\ lastOp = "none"
    /\ StartCheck(CtxCaller)

\* the body of the with-block has been entered (yield monitor)
InBody == ctx = "in" /\ lastOp = "start" /\ pc[CtxCaller] \in {"idle", "is_running"}

\* the body calls monitor.is_running, as does the code after the block
CtxIsRunning ==
    /\ lastOp \in {"start", "stop"} \/ ctx = "skipped"
    /\ IsRunningEnter(CtxCaller)

\* the body ends: it runs to its end, or it raises
BodyEnds ==
    /\ InBody
    /\ pc[CtxCaller] = "idle"
    /\ \E how \in {"normal", "raised"} : ctx' = how
    /\ UNCHANGED <<now, cacheVars, schedVars, lockVars, monVars, qm, job, legacy>>

\* finally: monitor.stop() (a block left without it is marked "skipped")
CtxFinally ==
    /\ ctx \in {"normal", "raised"}
    /\ lastOp = "start"
    /\ IF StopsOnLeave(ctx)
       THEN StopCheck(CtxCaller)
       ELSE /\ pc[CtxCaller] = "idle"
            /\ ctx' = "skipped"
            /\ UNCHANGED <<now, cacheVars, schedVars, lockVars, monVars, qm, job, legacy>>

\* the with-block has been left
AfterBlock ==
    \/ ctx \in {"normal", "raised"} /\ lastOp = "stop"
    \/ ctx = "skipped"

CtxInit == Init

CtxNext ==
    \/ CtxBegin
    \/ CtxStart
    \/ StartLaunch(CtxCaller)
    \/ StartReturn(CtxCaller)
    \/ CtxIsRunning
    \/ IsRunningReturn(CtxCaller)
    \/ BodyEnds
    \/ CtxFinally
    \/ StopJoin(CtxCaller)
    \/ StopReturn(CtxCaller)
    \/ \E t \in ThreadIds : LoopInit(t)
    \/ \E t \in ThreadIds : LoopTest(t)
    \/ \E t \in ThreadIds : LoopAlerts(t)
    \/ \E t \in ThreadIds : LoopClearExpired(t)
    \/ \E t \in ThreadIds : LoopState(t)
    \/ \E t \in ThreadIds : LoopSleep(t)
    \/ \E t \in ThreadIds : LoopBackoff(t)
    \/ Tick

CtxSpec == CtxInit /\ [][CtxNext]_vars

\* ------------------------------------------- the loop under fair scheduling
\* one thread calls start() and stop() in any order on a Monitor of interval 1
FairInit ==
    /\ Init
    /\ interval = 1

FairNext ==
    \/ StartCheck(CtxCaller)
    \/ StartLaunch(CtxCaller)
    \/ StartReturn(CtxCaller)
    \/ StopCheck(CtxCaller)
    \/ StopJoin(CtxCaller)
    \/ StopReturn(CtxCaller)
    \/ \E t \in ThreadIds : LoopInit(t)
    \/ \E t \in ThreadIds : LoopTest(t)
    \/ \E t \in ThreadIds : LoopAlerts(t)
    \/ \E t \in ThreadIds : LoopClearExpired(t)
    \/ \E t \in ThreadIds : LoopState(t)
    \/ \E t \in ThreadIds : LoopSleep(t)
    \/ \E t \in ThreadIds : LoopBackoff(t)
    \/ Tick

\* a loop thread that can take a step takes it in the end: its calls and its
\* waits return
FairSpec ==
    /\ FairInit
    /\ [][FairNext]_vars
    /\ \A t \in ThreadIds : WF_vars(LoopStep(t))

\* ------------------------------------------ the loop and the calls it makes
\* what the loop leaves alone when it calls alerts() or state()
IterUnchanged ==
    UNCHANGED <<now, cacheOp, lastSet, interval, running_lock, stop_event,
                monitoring_thread, pc, lastOp, foundRunning, lockVars, cfg, env,
                appVars>>

\* self.alerts(force_full_check=False) in the loop: the call itself, then the
\* next step of the try block or the except block
LoopAlertsCall(t) ==
    /\ thr[t].pc = "alerts"
    /\ \E ff \in Reports("fast", FastBundles(env.pcts)),
          fs \in Reports("slow", DiskTables(env.mounts, env.dpcts)),
          fail \in Failures, k \in Fractions :
         /\ AlertsEffect(NoState, FALSE, ff, fs, fail)
         /\ thr' = [thr EXCEPT ![t] = IF lastCall'.raised
                                      THEN WithJitter(OnException(thr[t]), k)
                                      ELSE [thr[t] EXCEPT !.pc = "clear"]]
    /\ IterUnchanged

\* a loop that records the time of the snapshot whether state() returned or not
AfterSnapshot_Stamped(r, raised, k) ==
    IF raised
    THEN WithJitter(OnException([r EXCEPT !.last_check = r.current_time]), k)
    ELSE [r EXCEPT !.pc = "sleep", !.last_check = r.current_time]

\* "self.state(); last_check = current_time", or the except block when
\* state() raised: the locals of the loop thread afterwards
AfterSnapshot(r, raised, k) ==
    IF raised THEN WithJitter(OnException(r), k)
    ELSE [r EXCEPT !.pc = "sleep", !.last_check = r.current_time]

\* self.state() in the loop: the call itself, then last_check = current_time
LoopSnapshot(t) ==
    /\ thr[t].pc = "state"
    /\ \E ff \in Reports("fast", FastBundles(env.pcts)),
          fm \in Reports("medium", env.temps),
          fs \in Reports("slow", DiskTables(env.mounts, env.dpcts)),
          fail \in Failures, k \in Fractions :
         /\ StateEffect(ff, fm, fs, fail)
         /\ thr' = [thr EXCEPT ![t] = AfterSnapshot(thr[t], lastCall'.raised, k)]
    /\ IterUnchanged

\* a Monitor of interval 1 whose history holds MaxHist snapshots, on a host
\* where the sources of the fast and of the medium group can raise
IterInit ==
    /\ NewMonitor
    /\ cfg = [DefaultCfg EXCEPT !.history_size = MaxHist]
    /\ env = [pcts |-> {MaxPct}, dpcts |-> {}, mounts |-> <<>>, temps |-> {<<>>},
              args |-> {}, times |-> {}, failing |-> {"fast", "medium"}]

IterNext ==
    \/ StartCheck(CtxCaller)
    \/ StartLaunch(CtxCaller)
    \/ StartReturn(CtxCaller)
    \/ \E t \in ThreadIds : LoopInit(t)
    \/ \E t \in ThreadIds : LoopTest(t)
    \/ \E t \in ThreadIds : LoopAlertsCall(t)
    \/ \E t \in ThreadIds : LoopClearExpired(t)
    \/ \E t \in ThreadIds : LoopSnapshot(t)
    \/ \E t \in ThreadIds : LoopSleep(t)
    \/ \E t \in ThreadIds : LoopBackoff(t)
    \/ Tick

IterSpec == IterInit /\ [][IterNext]_vars

\* ================================= the Monitor of system_monitor.py (legacy)
LegacyUnchanged == UNCHANGED <<now, cacheVars, schedVars, lockVars, monVars, ctx, qm, job>>

\* the loop threads of the legacy Monitor that have been started and have
\* not returned
LegacyLoops == {t \in ThreadIds : legacy.loop[t].pc \notin {"new", "done"}}

\* start(): if self._running: return; self._running = True;
\* threading.Thread(target=loop, daemon=True).start()
LegacyStart ==
    /\ Len(legacy.calls) < MaxCalls
    /\ IF legacy.running
       THEN legacy' = [legacy EXCEPT !.calls = Append(@, "start")]
       ELSE \E t \in ThreadIds :
              /\ legacy.loop[t].pc = "new"
              /\ \A u \in ThreadIds : u < t => legacy.loop[u].pc # "new"
              /\ legacy' = [legacy EXCEPT !.running = TRUE, !.loop[t].pc = "test",
                                          !.calls = Append(@, "start")]
    /\ LegacyUnchanged

\* stop(): self._running = False
LegacyStop ==
    /\ Len(legacy.calls) < MaxCalls
    /\ legacy' = [legacy EXCEPT !.running = FALSE, !.calls = Append(@, "stop")]
    /\ LegacyUnchanged

\* while self._running:
LegacyLoopTest(t) ==
    /\ legacy.loop[t].pc = "test"
    /\ legacy' = [legacy EXCEPT !.loop[t].pc = IF legacy.running THEN "alerts" ELSE "done"]
    /\ LegacyUnchanged

\* self.alerts(): returns, or raises (state() is not guarded) and ends the thread
LegacyLoopAlerts(t) ==
    /\ legacy.loop[t].pc = "alerts"
    /\ \E raises \in BOOLEAN :
         legacy' = [legacy EXCEPT !.loop[t].pc = IF raises THEN "done" ELSE "sleep"]
    /\ LegacyUnchanged

\* time.sleep(self.interval) returns: one more lap of the loop is complete
LegacyLoopSleep(t) ==
    /\ legacy.loop[t].pc = "sleep"
    /\ legacy.loop[t].laps < MaxLap
    /\ legacy' = [legacy EXCEPT !.loop[t].pc = "test", !.loop[t].laps = @ + 1]
    /\ LegacyUnchanged

LegacyNext ==
    \/ LegacyStart
    \/ LegacyStop
    \/ \E t \in ThreadIds : LegacyLoopTest(t)
    \/ \E t \in ThreadIds : LegacyLoopAlerts(t)
    \/ \E t \in ThreadIds : LegacyLoopSleep(t)

\* one thread calls start() and stop() of a legacy Monitor, in any order
LegacySpec == Init /\ [][LegacyNext]_vars

\* ----------------------------------------------------------- quick_monitor
\* the three limits, and the environment variable of each
LimitNames == {"cpu_limit", "ram_limit", "disk_limit"}

EnvName(n) ==
    IF n = "cpu_limit" THEN "SYSTEM_MONITOR_CPU_LIMIT"
    ELSE IF n = "ram_limit" THEN "SYSTEM_MONITOR_RAM_LIMIT"
    ELSE "SYSTEM_MONITOR_DISK_LIMIT"

\* the second argument of os.getenv for each limit: '80', '85', '90'
EnvDefault(n) ==
    IF n = "cpu_limit" THEN <<"8", "0">>
    ELSE IF n = "ram_limit" THEN <<"8", "5">>
    ELSE <<"9", "0">>

\* the value of a decimal digit
DigitValue(ch) ==
    CASE ch = "0" -> 0 [] ch = "1" -> 1 [] ch = "2" -> 2 [] ch = "3" -> 3
      [] ch = "4" -> 4 [] ch = "5" -> 5 [] ch = "6" -> 6 [] ch = "7" -> 7
      [] ch = "8" -> 8 [] ch = "9" -> 9

\* int(s) for a string of decimal digits (a sequence of characters)
RECURSIVE ParseInt(_)
ParseInt(s) ==
    IF s = <<>> THEN 0
    ELSE 10 * ParseInt(SubSeq(s, 1, Len(s) - 1)) + DigitValue(s[Len(s)])

\* os.getenv(name, default)
getenv(environ, name, default) ==
    IF name \in DOMAIN environ THEN environ[name] ELSE default

\* "x or y" for an optional number x (<<>> is None): None and 0 are false
PyOr(x, y) == IF x = <<>> \/ x[1] = 0 THEN y ELSE x[1]

\* cpu_limit = cpu_limit or int(os.getenv('SYSTEM_MONITOR_CPU_LIMIT', '80')),
\* and the same for ram_limit and disk_limit
QuickLimit(args, environ, n) ==
    PyOr(args[n], ParseInt(getenv(environ, EnvName(n), EnvDefault(n))))

\* the arguments a caller can pass for a limit: None, 0, 50
QuickArgs == {<<>>, <<0>>, <<50>>}

\* the values a limit variable of the environment can have: '0', '75'
EnvStrings == {<<"0">>, <<"7", "5">>}

\* the environments: any of the three variables set, or not
Environs ==
    UNION {[S -> EnvStrings] : S \in SUBSET {EnvName(n) : n \in LimitNames}}

\* quick_monitor(cpu_limit, ram_limit, disk_limit): the Monitor it returns
\* (interval=60, history_size=50)
QuickMonitor ==
    /\ \E args \in [LimitNames -> QuickArgs], environ \in Environs :
         /\ qm' = [made |-> TRUE, args |-> args, environ |-> environ]
         /\ cfg' = [MonitorLimits(QuickLimit(args, environ, "cpu_limit"),
                                  QuickLimit(args, environ, "ram_limit"),
                                  QuickLimit(args, environ, "disk_limit"))
                      EXCEPT !.history_size = 50]
    /\ interval' = 60
    /\ UNCHANGED <<now, cacheVars, running_lock, stop_event, monitoring_thread, thr,
                   pc, lastOp, foundRunning, lockVars, env, history, taken, lastCall,
                   deliveries, ctx, job, legacy>>

QuickInit ==
    /\ NewMonitor
    /\ cfg = DefaultCfg
    /\ env = NoEnv

QuickNext == QuickMonitor

QuickSpec == QuickInit /\ [][QuickNext]_vars

\* --------------------------------- state() and alerts() from several threads
\* the two threads that call state() and alerts() at the same time
JobThreads == {w \in Workers : w <= 2}

\* the groups state() reads, in its order; alerts() reads fast, then slow
StateGroups == <<"fast", "medium", "slow">>

\* the group the call of the thread w reads next
NextGroup(w) ==
    IF job[w].op = "state" THEN StateGroups[Len(job[w].got) + 1]
    ELSE IF job[w].got = <<>> THEN "fast" ELSE "slow"

\* where the call goes on once it holds n bundles
AfterBundle(op, n) ==
    IF op = "state" THEN (IF n < Len(StateGroups) THEN "get" ELSE "build")
    ELSE IF n = 1 THEN "check" ELSE "return"

\* the state() calls begun so far
StatesBegun == Len(taken) + Cardinality({w \in JobThreads : job[w].op = "state"})

\* what the sources of the group g report on this host
HostReports(g) ==
    IF g = "fast" THEN FastBundles(env.pcts)
    ELSE IF g = "medium" THEN env.temps
    ELSE DiskTables(env.mounts, env.dpcts)

\* a thread calls monitor.state()
JobStateBegin(w) ==
    /\ job[w].op = "none"
    /\ StatesBegun < MaxCalls
    /\ job' = [job EXCEPT ![w] = [op |-> "state", pc |-> "get", got |-> <<>>,
                                  seen |-> history, snap |-> <<>>]]
    /\ UNCHANGED <<cache, history, taken, lastCall, deliveries>>
    /\ UNCHANGED <<now, cacheOp, lastSet, schedVars, lockVars, cfg, env, ctx, qm, legacy>>

\* a thread calls monitor.alerts()
JobAlertsBegin(w) ==
    /\ job[w].op = "none"
    /\ job' = [job EXCEPT ![w] = [op |-> "alerts", pc |-> "get", got |-> <<>>,
                                  seen |-> <<>>, snap |-> <<>>]]
    /\ UNCHANGED <<cache, history, taken, lastCall, deliveries>>
    /\ UNCHANGED <<now, cacheOp, lastSet, schedVars, lockVars, cfg, env, ctx, qm, legacy>>

\* cached = self.cache.get(cache_key); if cached is not None: return cached
JobGet(w) ==
    /\ job[w].pc = "get"
    /\ LET g == NextGroup(w) IN
         job' = [job EXCEPT ![w] =
                   IF Cached(cache, cache_key(g), now)
                   THEN [job[w] EXCEPT
                           !.got = Append(job[w].got, cache[cache_key(g)].value),
                           !.pc = AfterBundle(job[w].op, Len(job[w].got) + 1)]
                   ELSE [job[w] EXCEPT !.pc = "fetch"]]
    /\ UNCHANGED <<cache, history, taken, lastCall, deliveries>>
    /\ UNCHANGED <<now, cacheOp, lastSet, schedVars, lockVars, cfg, env, ctx, qm, legacy>>

\* metrics = {...}; self.cache.set(cache_key, metrics, ttl); return metrics
JobFetch(w) ==
    /\ job[w].pc = "fetch"
    /\ LET g == NextGroup(w) IN
         \E fresh \in HostReports(g) :
            /\ cache' = set(cache, cache_key(g), fresh, update_intervals(g), now)
            /\ job' = [job EXCEPT ![w].got = Append(job[w].got, fresh),
                                  ![w].pc = AfterBundle(job[w].op, Len(job[w].got) + 1)]
    /\ UNCHANGED <<history, taken, lastCall, deliveries>>
    /\ UNCHANGED <<now, cacheOp, lastSet, schedVars, lockVars, cfg, env, ctx, qm, legacy>>

\* alerts(): "if force_full_check or self.cache.get('slow_metrics') is None"
JobCheck(w) ==
    /\ job[w].pc = "check"
    /\ job' = [job EXCEPT ![w].pc =
                 IF check_slow(FALSE, Cached(cache, "slow_metrics", now))
                 THEN "get" ELSE "return"]
    /\ UNCHANGED <<cache, history, taken, lastCall, deliveries>>
    /\ UNCHANGED <<now, cacheOp, lastSet, schedVars, lockVars, cfg, env, ctx, qm, legacy>>

\* an append made on the deque as the thread saw it when it entered state()
AppendBase_Stale(w) == job[w].seen

\* self.history.append(s) acts on the deque as it is at the call
AppendBase(w) == history

\* s = State(..., timestamp=datetime.datetime.now())
JobBuild(w) ==
    /\ job[w].pc = "build"
    /\ job' = [job EXCEPT
                 ![w].snap = <<State(job[w].got[1], job[w].got[2], job[w].got[3], now)>>,
                 ![w].pc = "append"]
    /\ UNCHANGED <<cache, history, taken, lastCall, deliveries>>
    /\ UNCHANGED <<now, cacheOp, lastSet, schedVars, lockVars, cfg, env, ctx, qm, legacy>>

\* self.history.append(s); return s
JobAppend(w) ==
    /\ job[w].pc = "append"
    /\ LET s == job[w].snap[1] IN
         /\ history' = deque_append(AppendBase(w), s, cfg.history_size)
         /\ taken' = Append(taken, s)
    /\ job' = [job EXCEPT ![w] = NoJob]
    /\ UNCHANGED <<cache, lastCall, deliveries>>
    /\ UNCHANGED <<now, cacheOp, lastSet, schedVars, lockVars, cfg, env, ctx, qm, legacy>>

\* alerts(): the list, one delivery thread per alert, return alerts_list
JobAlertsReturn(w) ==
    /\ job[w].pc = "return"
    /\ LET alerts == FastAlerts(job[w].got[1])
                     \o (IF Len(job[w].got) = 2 THEN DiskAlerts(job[w].got[2], 1)
                         ELSE <<>>)
       IN /\ deliveries' = spawn(alerts)
          /\ lastCall' = [NoCall EXCEPT !.op = "alerts", !.alerts = alerts]
    /\ job' = [job EXCEPT ![w] = NoJob]
    /\ UNCHANGED <<cache, history, taken>>
    /\ UNCHANGED <<now, cacheOp, lastSet, schedVars, lockVars, cfg, env, ctx, qm, legacy>>

\* the background loop, when it runs: self.cache.clear_expired()
JobClearExpired ==
    /\ cache # clear_expired(cache, now)
    /\ cache' = clear_expired(cache, now)
    /\ UNCHANGED <<history, taken, lastCall, deliveries>>
    /\ UNCHANGED <<now, cacheOp, lastSet, schedVars, lockVars, cfg, env, ctx, job>>
    /\ UNCHANGED <<qm, legacy>>

\* the next step of the call the thread w is inside
JobStep(w) ==
    \/ JobGet(w)
    \/ JobFetch(w)
    \/ JobCheck(w)
    \/ JobBuild(w)
    \/ JobAppend(w)
    \/ JobAlertsReturn(w)

\* a history that can hold every state() call made; cpu and ram full, one
\* disk, full; the clock goes from the start to the instant the fast entry
\* has expired
JobInit ==
    /\ NewMonitor
    /\ cfg = [DefaultCfg EXCEPT !.history_size = MaxCalls]
    /\ env = [pcts |-> {MaxPct}, dpcts |-> {MaxPct}, mounts |-> <<Mounts[1]>>,
              temps |-> {<<>>}, args |-> {},
              times |-> {update_intervals("fast") + 1}, failing |-> {}]

JobNext ==
    \/ \E w \in JobThreads : JobStateBegin(w)
    \/ \E w \in JobThreads : JobAlertsBegin(w)
    \/ \E w \in JobThreads : JobGet(w)
    \/ \E w \in JobThreads : JobFetch(w)
    \/ \E w \in JobThreads : JobCheck(w)
    \/ \E w \in JobThreads : JobBuild(w)
    \/ \E w \in JobThreads : JobAppend(w)
    \/ \E w \in JobThreads : JobAlertsReturn(w)
    \/ JobClearExpired
    \/ MonTick

JobSpec == JobInit /\ [][JobNext]_vars

\* a sink whose calls may never return; all limits 0, cpu and ram at 0 or
\* full, every disk full, sources that do not raise
BlockInit ==
    /\ NewMonitor
    /\ cfg = [DefaultCfg EXCEPT !.on_alert = "may_block"]
    /\ env = [pcts |-> {0, MaxPct}, dpcts |-> {MaxPct}, mounts |-> Mounts,
              temps |-> {<<>>}, args |-> {}, times |-> TimePoints("fast"),
              failing |-> {}]

BlockNext ==
    \/ AlertsCalls
    \/ \E i \in DOMAIN deliveries : Deliver(i)
    \/ MonTick

BlockSpec == BlockInit /\ [][BlockNext]_vars

\* ================================================================== claims
StartPcs == {"start_ret", "start_launch"}
StopPcs == {"stop_ret", "stop_join", "stop_end"}

\* the caller c enters start() (resp. stop()) in this step
EntersStart(c) == pc[c] = "idle" /\ pc'[c] \in StartPcs
EntersStop(c) == pc[c] = "idle" /\ pc'[c] \in StopPcs

\* some loop thread has terminated itself through the circuit breaker
Tripped == \E t \in ThreadIds : thr[t].exit = "breaker"

\* C1: in every reachable state at most one monitoring-loop thread is alive,
\* whatever the interleaving of the start() and stop() calls of the callers.
AtMostOneLoopAlive == Cardinality(AliveThreads) <= 1

\* a second loop has been launched after the first one terminated, and a
\* start() has just declined to launch a third one beside it
AtMostOneLoopAliveWitness ==
    /\ Cardinality(Created) = 2
    /\ Cardinality(AliveThreads) = 1
    /\ \E c \in Callers : pc[c] = "start_ret"

\* C2: start() called while the loop is running is a no-op: it takes the early
\* return, launches no thread, leaves the thread handle, the threads and the
\* stop signal unchanged, so exactly one loop is alive and is_running is true.
StartWhileRunningIsNoOp ==
    [][\A c \in Callers :
         /\ (EntersStart(c) /\ is_running) =>
               /\ pc'[c] = "start_ret"
               /\ UNCHANGED <<stop_event, monitoring_thread, thr>>
               /\ Cardinality(AliveThreads') = 1
               /\ is_running'
         /\ (pc[c] = "start_ret" /\ pc'[c] = "idle") =>
               UNCHANGED <<stop_event, monitoring_thread, thr>>]_vars

\* the second of two start() calls in a row has taken the early return with the loop running
StartWhileRunningWitness ==
    \E c \in Callers :
        /\ pc[c] = "start_ret"
        /\ lastOp = "start"
        /\ foundRunning
        /\ is_running
        /\ Cardinality(AliveThreads) = 1

\* C3: start() on a Monitor that was started and then stopped with stop()
\* clears the stop signal and launches a new loop thread.
StartAfterStopRestarts ==
    \A c \in Callers :
        (pc[c] \in {"start_ret", "start_end"} /\ lastOp = "stop" /\ monitoring_thread # None)
            => (pc[c] = "start_end" /\ ~stop_event)

\* C4: the second of two stop() calls in a row changes neither the stop signal
\* nor the thread handle nor any thread, and performs no join.
SecondStopIsNoOp ==
    [][\A c \in Callers :
         /\ (EntersStop(c) /\ lastOp = "stop") =>
               /\ pc'[c] = "stop_ret"
               /\ UNCHANGED <<stop_event, monitoring_thread, thr>>
         /\ (pc[c] = "stop_ret" /\ pc'[c] = "idle") =>
               UNCHANGED <<stop_event, monitoring_thread, thr>>]_vars

\* a stop() entered right after a stop() returned, and is returning without a join
SecondStopWitness ==
    \E c \in Callers : pc[c] = "stop_ret" /\ lastOp = "stop"

\* C5: stop() on a Monitor that is Stopped because it was never started, or
\* because its loop terminated itself, leaves the stop signal and the thread
\* handle as they were.
StopWhenStoppedIsNoOp ==
    [][\A c \in Callers :
         (/\ EntersStop(c)
          /\ ~stop_event
          /\ \/ monitoring_thread = None
             \/ thr[monitoring_thread].exit = "breaker")
            => UNCHANGED <<stop_event, monitoring_thread>>]_vars

\* C6: once stop() has returned, is_running is false, whether or not the loop
\* thread has exited within the join timeout.
NotRunningAfterStop == lastOp = "stop" => ~is_running

\* stop() was called on a running Monitor and has returned with the loop thread still alive
NotRunningAfterStopWitness ==
    /\ lastOp = "stop"
    /\ foundRunning
    /\ running_lock = NoOwner
    /\ monitoring_thread # None
    /\ is_alive(monitoring_thread)

\* C7 as claimed: once the loop has terminated itself and is_running is false,
\* is_running stays false for ever.
BreakerStopsForEver ==
    [][(Tripped /\ ~is_running) => ~is_running']_vars

\* C7 as amended: a loop whose last 5 iterations each raised has terminated
\* itself (no stop() is needed), is_running is false while the handle is that
\* thread, and is_running becomes true again only by a start() launching a loop.
BreakerStopsLoop ==
    /\ [](\A t \in ThreadIds :
            thr[t].run >= max_consecutive_errors =>
                (thr[t].pc = "done" /\ thr[t].exit = "breaker"))
    /\ []((monitoring_thread # None /\ thr[monitoring_thread].exit = "breaker")
            => ~is_running)
    /\ [][(Tripped /\ ~is_running /\ is_running') =>
            (\E c \in Callers : pc[c] = "start_launch" /\ pc'[c] = "start_end")]_vars

\* the loop has terminated itself after 5 failures in a row, and no stop() was called
BreakerStopsLoopWitness ==
    /\ monitoring_thread # None
    /\ thr[monitoring_thread].exit = "breaker"
    /\ thr[monitoring_thread].run = max_consecutive_errors
    /\ ~stop_event
    /\ lastOp # "stop"
    /\ \A c \in Callers : pc[c] \notin StopPcs
    /\ ~is_running

\* C8: the consecutive-error counter is the number of iterations that raised
\* since the last iteration that completed (so it is zero after every completed
\* iteration), it stays in 0..5, and the loop terminates itself only with 5
\* failures in a row.
ErrorCounterIsRunLength ==
    \A t \in ThreadIds :
        /\ thr[t].consecutive_errors \in 0..max_consecutive_errors
        /\ thr[t].consecutive_errors = thr[t].run
        /\ thr[t].exit = "breaker" <=> thr[t].run = max_consecutive_errors

\* a loop that had failures completed an iteration, which reset the counter
ErrorCounterWitness ==
    \E t \in ThreadIds :
        /\ thr[t].failed
        /\ thr[t].pc = "test"
        /\ thr[t].consecutive_errors = 0
        /\ thr[t].run = 0

\* C9: a get(k) issued while the age of the last set(k, v, ttl) is at most ttl
\* returns v, a get(k) issued later (or with no set of k) returns None, and
\* set overwrites the entry of k and restarts its age.
GetReturnsFreshValue ==
    /\ cacheOp.op = "get" =>
          LET k == cacheOp.key IN
          IF k \in DOMAIN lastSet /\ cacheOp.time - lastSet[k].time <= lastSet[k].ttl
          THEN cacheOp.result = lastSet[k].value
          ELSE cacheOp.result = None
    /\ cacheOp.op = "set" =>
          /\ cacheOp.key \in DOMAIN cache
          /\ cache[cacheOp.key] = [value |-> lastSet[cacheOp.key].value,
                                   timestamp |-> cacheOp.time,
                                   ttl |-> lastSet[cacheOp.key].ttl]

\* a get of a key that was set returned None because the entry, still in the
\* mapping, is older than its ttl
GetReturnsFreshValueWitness ==
    /\ cacheOp.op = "get"
    /\ cacheOp.key \in DOMAIN cache
    /\ cacheOp.result = None
    /\ cacheOp.time - cache[cacheOp.key].timestamp = cache[cacheOp.key].ttl + 1

\* C10: clear_expired() removes exactly the entries whose age exceeds their own
\* ttl at the time of the call, leaves the others as they were, and the keys it
\* removes are the keys of the mapping for which get returned None.
ClearExpiredRemovesExactlyExpired ==
    cacheOp.op = "clear" =>
        LET b == cacheOp.before
            t == cacheOp.time
            fresh == {k \in DOMAIN b : t - b[k].timestamp <= b[k].ttl}
        IN /\ cache = [k \in fresh |-> b[k]]
           /\ DOMAIN b \ DOMAIN cache = {k \in DOMAIN b : get(b, k, t) = None}

\* a clear_expired() removed one entry and kept another one
ClearExpiredWitness ==
    /\ cacheOp.op = "clear"
    /\ cache # EmptyCache
    /\ DOMAIN cache # DOMAIN cacheOp.before


\* C11: get, set and clear_expired called concurrently are atomic with respect
\* to one another: no set is lost (every key that was set holds the entry of
\* the last set of it, or has been removed after that entry expired), and a get
\* returns what the sets made before it say, never a partially updated mapping.
CacheCallsAreAtomic ==
    /\ \A k \in DOMAIN lastSet :
          IF k \in DOMAIN cache
          THEN cache[k] = CachedMetric(lastSet[k].value, lastSet[k].time, lastSet[k].ttl)
          ELSE now - lastSet[k].time > lastSet[k].ttl
    /\ \A w \in Workers : wk[w].pc = "get" => wk[w].ret = wk[w].exp
    /\ \A w \in Workers : wk[w].pc = "clear_del" => DOMAIN cache \cap wk[w].keys = {}

\* every key has been set, and a clear_expired holding the lock has removed an
\* expired entry and kept a fresh one
CacheCallsAreAtomicWitness ==
    \E w \in Workers :
        /\ wk[w].pc = "clear_del"
        /\ wk[w].keys # {}
        /\ cache # EmptyCache
        /\ DOMAIN lastSet = Keys


\* C12: in every reachable state no thread holds the cache lock while it is
\* performing a MetricSource call or a sink delivery, and a group's cache entry
\* is written only once every MetricSource call of that refresh has returned.
NoLockDuringSourceOrSink ==
    /\ \A w \in Workers :
          wk[w].pc \in {"f_src", "f_raised", "deliver"} => cache_lock # w
    /\ \A w \in Workers :
          wk[w].pc = "f_setd" => wk[w].calls = Len(SourceCalls(wk[w].g))

\* a refresh is between two MetricSource calls while another thread holds the
\* cache lock to store its bundle
NoLockDuringSourceOrSinkWitness ==
    \E w, u \in Workers :
        /\ w # u
        /\ wk[w].pc = "f_src"
        /\ wk[w].calls > 0
        /\ wk[u].pc = "f_setd"
        /\ cache_lock = u

\* C13: each _get_*_metrics is read-through: on a present and unexpired entry
\* it returns the cached bundle and calls no MetricSource; otherwise it calls
\* all of the group's MetricSource functions, stores the bundle under the
\* group's key with ttl 1 (fast), 30 (medium) or 300 (slow), and returns it.
TiersAreReadThrough ==
    \A w \in Workers :
        /\ wk[w].pc = "f_src" => wk[w].exp = None
        /\ wk[w].pc = "f_ret" /\ wk[w].exp # None =>
              wk[w].ret = wk[w].exp /\ wk[w].calls = 0
        /\ wk[w].pc = "f_ret" /\ wk[w].exp = None =>
              /\ wk[w].calls = Len(SourceCalls(wk[w].g))
              /\ wk[w].ret = wk[w].val
              /\ wk[w].ret # None
        /\ wk[w].pc = "f_setd" =>
              /\ wk[w].key \in DOMAIN cache
              /\ cache[wk[w].key] =
                   CachedMetric(wk[w].val, cache[wk[w].key].timestamp,
                                IF wk[w].g = "fast" THEN 1
                                ELSE IF wk[w].g = "medium" THEN 30 ELSE 300)
              /\ cache[wk[w].key].timestamp <= now
              /\ wk[w].key = (IF wk[w].g = "fast" THEN "fast_metrics"
                              ELSE IF wk[w].g = "medium" THEN "medium_metrics"
                              ELSE "slow_metrics")

\* one thread got the slow bundle from the cache at the last instant of its
\* ttl, calling no MetricSource, while another one, that had missed, returns
\* the bundle it built and stored
TiersAreReadThroughWitness ==
    \E w, u \in Workers :
        /\ wk[w].pc = "f_ret" /\ wk[w].exp # None /\ wk[w].calls = 0
        /\ wk[w].g = "slow" /\ now = 300
        /\ wk[u].pc = "f_ret" /\ wk[u].exp = None /\ wk[u].calls > 0


\* C14: every successful state() call obtains the three tiers, builds one
\* snapshot stamped with the current time, appends exactly that snapshot to
\* the history (one append per call) and returns it; alerts() never appends.
StateAppendsItsSnapshot ==
    [][/\ taken' # taken =>
             /\ lastCall'.op = "state" /\ ~lastCall'.raised
             /\ lastCall'.tiers = {"fast", "medium", "slow"}
             /\ Len(lastCall'.snap) = 1
             /\ lastCall'.snap[1].timestamp = now
             /\ taken' = Append(taken, lastCall'.snap[1])
             /\ history' = LastN(Append(history, lastCall'.snap[1]), cfg.history_size)
       /\ history' # history => taken' # taken
       /\ (lastCall'.op = "alerts" /\ lastCall' # lastCall) => history' = history
       /\ (lastCall'.op = "state" /\ ~lastCall'.raised /\ lastCall' # lastCall)
             => taken' # taken]_vars

\* a second state() has returned the snapshot that is now the last one of the
\* history, after an alerts() call or a lapse of time
StateAppendsItsSnapshotWitness ==
    /\ lastCall.op = "state"
    /\ ~lastCall.raised
    /\ Len(history) >= 2
    /\ history[Len(history)] = lastCall.snap[1]
    /\ history[Len(history)].timestamp = now
    /\ now > 0

\* C15: the history never holds more than history_size snapshots, and once
\* more than history_size snapshots have been taken it holds exactly the most
\* recent history_size of them, in the order they were appended.
HistoryIsBounded ==
    /\ Len(history) <= cfg.history_size
    /\ Len(taken) > cfg.history_size =>
          /\ Len(history) = cfg.history_size
          /\ \A i \in 1..cfg.history_size :
                history[i] = taken[Len(taken) - cfg.history_size + i]
    /\ Len(taken) <= cfg.history_size => history = taken

\* more snapshots than the history can hold have been taken, at different
\* times: the oldest has left
HistoryIsBoundedWitness ==
    /\ cfg.history_size >= 2
    /\ Len(taken) > cfg.history_size
    /\ taken[1] # taken[2]
    /\ history[1] # history[2]


\* the alerts of one kind in the list returned by the last alerts() call
AlertsOfKind(kind) == SelectSeq(lastCall.alerts, LAMBDA a : a.kind = kind)

\* the last alerts() call has returned a list
AlertsReturned == lastCall.op = "alerts" /\ ~lastCall.raised

\* C16: on every alerts() call, whatever force_full_check and the state
\* argument are, the list has a CPU alert iff the fast-tier cpu is strictly
\* above cpu_limit and a RAM alert iff the fast-tier ram is strictly above
\* ram_limit; so with all limits 0 the list is non-empty when cpu or ram > 0.
CpuRamAlertIffAboveLimit ==
    AlertsReturned =>
        LET fast == cache["fast_metrics"].value
        IN /\ Len(AlertsOfKind("cpu")) = (IF fast.cpu > cfg.cpu_limit THEN 1 ELSE 0)
           /\ Len(AlertsOfKind("ram")) = (IF fast.ram > cfg.ram_limit THEN 1 ELSE 0)
           /\ (cfg.cpu_limit = 0 /\ cfg.ram_limit = 0 /\ cfg.disk_limit = 0
               /\ (fast.cpu > 0 \/ fast.ram > 0)) => lastCall.alerts # <<>>

\* a forced check with a State supplied found the cpu exactly at its limit and
\* the ram above its own: one RAM alert and no CPU alert
CpuRamAlertIffAboveLimitWitness ==
    /\ AlertsReturned
    /\ lastCall.force /\ lastCall.arg.given
    /\ cache["fast_metrics"].value.cpu = cfg.cpu_limit
    /\ cfg.cpu_limit > 0
    /\ cache["fast_metrics"].value.ram > cfg.ram_limit
    /\ Len(AlertsOfKind("ram")) = 1
    /\ AlertsOfKind("cpu") = <<>>

\* C17: alerts() evaluates the disks (one alert per disk whose percent is
\* strictly above disk_limit) iff force_full_check is true or the slow entry
\* is absent or expired at the moment of the check; with a fresh slow entry
\* and no force there is no disk alert, whatever the disk usage is.
DisksEvaluatedIffForcedOrStale ==
    AlertsReturned =>
        IF lastCall.force \/ ~lastCall.slowFresh
        THEN LET disks == cache["slow_metrics"].value
                 over == {i \in DOMAIN disks : disks[i] > cfg.disk_limit}
             IN /\ "slow_metrics" \in DOMAIN cache
                /\ Len(AlertsOfKind("disk")) = Cardinality(over)
                /\ {a.who : a \in {AlertsOfKind("disk")[j] :
                                      j \in 1..Len(AlertsOfKind("disk"))}}
                     = {Mounts[i] : i \in over}
        ELSE AlertsOfKind("disk") = <<>>

\* the slow entry is fresh and shows a disk above the limit, and an alerts()
\* call without force has returned no disk alert
DisksEvaluatedIffForcedOrStaleWitness ==
    /\ AlertsReturned
    /\ ~lastCall.force
    /\ lastCall.slowFresh
    /\ \E i \in DOMAIN cache["slow_metrics"].value :
          cache["slow_metrics"].value[i] > cfg.disk_limit
    /\ AlertsOfKind("disk") = <<>>
    /\ now >= 300

\* C18: a call alerts(force_full_check=False) never invokes a slow-tier
\* MetricSource function.
UnforcedAlertsCallNoSlowSource ==
    (lastCall.op = "alerts" /\ ~lastCall.force) => "slow" \notin lastCall.called


\* the temperature entries of the State supplied to the last alerts() call, in
\* the order of the two loops, each with the name of its sensor
SuppliedEntries ==
    LET t == lastCall.arg.temperatures
        of(i) == [j \in 1..Len(t[i].entries) |->
                     [sensor |-> t[i].sensor, e |-> t[i].entries[j]]]
    IN IF Len(t) = 0 THEN <<>>
       ELSE IF Len(t) = 1 THEN of(1) ELSE of(1) \o of(2)

\* the temperature alerts of the list returned by the last alerts() call
TemperatureAlerts ==
    SelectSeq(lastCall.alerts, LAMBDA a : a.kind \in {"critical", "high"})

\* the alerts the entries call for when each gives "critical" if its current
\* is at or above a critical threshold that Set accepts, else "high" if it is
\* at or above such a high threshold, else nothing
AlertsCalledFor(Set(_)) ==
    LET one(x) ==
          IF Set(x.e.critical) /\ x.e.current >= x.e.critical
          THEN <<[kind |-> "critical", who |-> x.sensor, value |-> x.e.current]>>
          ELSE IF Set(x.e.high) /\ x.e.current >= x.e.high
          THEN <<[kind |-> "high", who |-> x.sensor, value |-> x.e.current]>>
          ELSE <<>>
        n == Len(SuppliedEntries)
    IN IF n = 0 THEN <<>>
       ELSE IF n = 1 THEN one(SuppliedEntries[1])
       ELSE one(SuppliedEntries[1]) \o one(SuppliedEntries[2])

\* C19 as stated: with a snapshot supplied, each temperature entry yields at
\* most one alert, "critical" when current >= critical, otherwise "high" when
\* current >= high, never both; without a snapshot, no temperature alert.
OneAlertPerTemperatureEntry ==
    AlertsReturned =>
        IF lastCall.arg.given
        THEN TemperatureAlerts = AlertsCalledFor(LAMBDA x : x # NoThreshold)
        ELSE TemperatureAlerts = <<>>

\* C19 amended: the same, a threshold that is None or 0 counting as not set:
\* "critical" when critical is set and current >= critical, otherwise "high"
\* when high is set and current >= high, never both; without a snapshot, no
\* temperature alert.
OneAlertPerEntryWithSetThreshold ==
    AlertsReturned =>
        IF lastCall.arg.given
        THEN /\ TemperatureAlerts = AlertsCalledFor(LAMBDA x : x # NoThreshold /\ x # 0)
             /\ Len(TemperatureAlerts) <= Len(SuppliedEntries)
        ELSE TemperatureAlerts = <<>>

\* current 3, high 1, critical 2 on the first entry: exactly one alert for it,
\* a critical one, and a high alert for the second entry, which is at its high
\* threshold and below its critical one
OneAlertPerEntryWitness ==
    /\ AlertsReturned
    /\ lastCall.arg.given
    /\ Len(SuppliedEntries) = 2
    /\ SuppliedEntries[1].e = [current |-> 3, high |-> 1, critical |-> 2]
    /\ SuppliedEntries[2].e = [current |-> 2, high |-> 2, critical |-> 3]
    /\ Len(TemperatureAlerts) = 2
    /\ TemperatureAlerts[1].kind = "critical"
    /\ TemperatureAlerts[2].kind = "high"


\* C20: a sink that raises on every delivery never makes alerts() raise:
\* alerts() returns the list the metrics call for, the one it returns with a
\* working sink, and a delivery is attempted exactly once for every alert of
\* the batch, the failure of one delivery not preventing the others (each
\* delivery thread is still to run, or has made its one attempt).
FailingSinkIsIsolated ==
    lastCall.op = "alerts" =>
        /\ ~lastCall.raised
        /\ LET fast == cache["fast_metrics"].value
           IN /\ Len(AlertsOfKind("cpu")) = (IF fast.cpu > 0 THEN 1 ELSE 0)
              /\ Len(AlertsOfKind("ram")) = (IF fast.ram > 0 THEN 1 ELSE 0)
              /\ Len(lastCall.alerts) = Len(AlertsOfKind("cpu")) + Len(AlertsOfKind("ram"))
                                        + Len(AlertsOfKind("disk"))
        /\ Len(AlertsOfKind("disk")) =
              (IF lastCall.force \/ ~lastCall.slowFresh
               THEN Cardinality(DOMAIN cache["slow_metrics"].value) ELSE 0)
        /\ Len(deliveries) = Len(lastCall.alerts)
        /\ \A i \in DOMAIN deliveries :
              /\ deliveries[i].msg = lastCall.alerts[i]
              /\ \/ deliveries[i].status = "started" /\ deliveries[i].attempts = 0
                 \/ /\ deliveries[i].status =
                         (IF cfg.on_alert = "raises" THEN "failed" ELSE "delivered")
                    /\ deliveries[i].attempts = 1

\* the sink raises, alerts() has returned three alerts or more, and every one
\* of them has had its delivery attempted, each attempt failing
FailingSinkIsIsolatedWitness ==
    /\ lastCall.op = "alerts"
    /\ cfg.on_alert = "raises"
    /\ Len(lastCall.alerts) >= 3
    /\ \A i \in DOMAIN deliveries :
          deliveries[i].status = "failed" /\ deliveries[i].attempts = 1


\* C21: alerts() returns without waiting for any sink delivery: when it
\* returns, every delivery of the batch has only been started; a delivery
\* that blocks, even for ever, prevents neither a later alerts() call nor the
\* delivery of any other alert, which can always run on its own thread.
AlertsNeverWaitsForSink ==
    /\ [](/\ ENABLED AlertsCalls
          /\ \A i \in DOMAIN deliveries :
                deliveries[i].status = "started" => ENABLED Deliver(i))
    /\ [][(lastCall'.op = "alerts" /\ ~lastCall'.raised /\ deliveries' # deliveries
           /\ lastCall' # lastCall)
             => \A i \in DOMAIN deliveries' : deliveries'[i].status = "started"]_vars

\* an alerts() call has returned while a delivery of the batch before it was
\* blocked; in its own batch the first delivery is blocked in the sink and a
\* later one has been delivered all the same
AlertsNeverWaitsForSinkWitness ==
    /\ lastCall.op = "alerts"
    /\ lastCall.blocked >= 1
    /\ Len(deliveries) >= 2
    /\ deliveries[1].status = "blocked"
    /\ deliveries[Len(deliveries)].status = "delivered"

\* the place of x in the sequence q (0 when it is not there)
IndexOf(q, x) == IF \E i \in DOMAIN q : q[i] = x
                 THEN CHOOSE i \in DOMAIN q : q[i] = x ELSE 0

\* the rank of an alert in the order of the list: cpu, ram, the disks in the
\* order of the partitions, the temperatures in the order of the sensors
AlertRank(a) ==
    IF a.kind = "cpu" THEN 0
    ELSE IF a.kind = "ram" THEN 1
    ELSE IF a.kind = "disk" THEN 1 + IndexOf(Mounts, a.who)
    ELSE 1 + Len(Mounts) + IndexOf(Sensors, a.who)

\* C22: the list alerts() returns is ordered: the CPU alert, then the RAM
\* alert, then the disk alerts in the order of the partitions, then the
\* temperature alerts in the order of the sensors; and a call that reads the
\* same cached values with the same arguments as the call before it returns
\* the same list.
AlertsListIsOrdered ==
    /\ [](AlertsReturned =>
            \A i, j \in DOMAIN lastCall.alerts :
                i < j => /\ AlertRank(lastCall.alerts[i]) <= AlertRank(lastCall.alerts[j])
                         /\ (lastCall.alerts[i].kind \in {"cpu", "ram", "disk"}
                               => AlertRank(lastCall.alerts[i])
                                    < AlertRank(lastCall.alerts[j])))
    /\ [][(/\ lastCall.op = "alerts" /\ ~lastCall.raised
           /\ lastCall'.op = "alerts" /\ ~lastCall'.raised
           /\ lastCall'.called = {} /\ cache' = cache
           /\ lastCall'.tiers = lastCall.tiers
           /\ lastCall'.force = lastCall.force /\ lastCall'.arg = lastCall.arg)
             => lastCall'.alerts = lastCall.alerts]_vars

\* a list with the CPU alert, the RAM alert, an alert for each of the two
\* disks and one for each of the two sensors, returned from the cache alone
AlertsListIsOrderedWitness ==
    /\ AlertsReturned
    /\ lastCall.called = {}
    /\ Len(lastCall.alerts) = 2 + Len(Mounts) + Len(Sensors)
    /\ {lastCall.alerts[i].who : i \in DOMAIN lastCall.alerts}
          = {""} \cup {Mounts[i] : i \in DOMAIN Mounts}
                 \cup {Sensors[i] : i \in DOMAIN Sensors}

\* C23: a Monitor cannot be constructed with a cpu, ram or disk limit outside
\* [0, 100]: construction fails, so every Monitor that exists has its three
\* thresholds in that range.
ThresholdsWithinPercentRange ==
    /\ cfg.cpu_limit \in 0..100
    /\ cfg.ram_limit \in 0..100
    /\ cfg.disk_limit \in 0..100

\* C24: a MetricSource call that fails during the refresh of a group is caught
\* for that call alone: the other calls of the group still run and the bundle
\* is produced and cached, so no refresh (and no state() that made it) is left
\* through an exception of a source.
SourceFailureNeverAbortsRefresh ==
    \A w \in Workers : wk[w].pc # "f_raised"

\* C25: stop() always returns: its join waits no longer than the timeout, so
\* a caller inside stop() can always take its next step whatever the loop
\* thread does, and stop() is never left waiting for a loop thread that has
\* not exited (the thread can then still be alive after stop() returned).
StopNeverWaitsForTheLoop ==
    \A c \in Callers :
        /\ pc[c] = "stop_join" => ENABLED StopJoin(c)
        /\ pc[c] \in {"stop_ret", "stop_end"} => ENABLED StopReturn(c)

\* the stop() that set the stop event has returned, and the loop thread it
\* joined is still alive
StopNeverWaitsForTheLoopWitness ==
    /\ lastOp = "stop"
    /\ running_lock = NoOwner
    /\ stop_event
    /\ monitoring_thread # None
    /\ is_alive(monitoring_thread)

\* C26: monitor_context starts the monitor before the body and stops it when
\* the body is left, normally or by an exception: inside the body is_running
\* is true as long as the loop has not terminated itself, and after the
\* with-block it is false.
ContextStartsAndStops ==
    /\ (InBody /\ \A t \in ThreadIds : thr[t].exit = "none") => is_running
    /\ AfterBlock => ~is_running

\* the body raised, the stop() of the finally clause found the loop running,
\* the block has been left and the code after it is reading is_running
ContextStartsAndStopsWitness ==
    /\ ctx = "raised"
    /\ AfterBlock
    /\ pc[CtxCaller] = "is_running"
    /\ foundRunning

\* C27: quick_monitor gives each limit the argument supplied for it whenever
\* one is supplied (whatever its value, 0 included), otherwise the value of
\* its SYSTEM_MONITOR_*_LIMIT variable when that is set, otherwise 80 for the
\* cpu, 85 for the ram and 90 for the disks.
QuickMonitorPrefersArguments ==
    qm.made =>
        \A n \in LimitNames :
            cfg[n] = IF qm.args[n] # <<>> THEN qm.args[n][1]
                     ELSE IF EnvName(n) \in DOMAIN qm.environ
                     THEN ParseInt(qm.environ[EnvName(n)])
                     ELSE IF n = "cpu_limit" THEN 80
                     ELSE IF n = "ram_limit" THEN 85 ELSE 90

\* C28: state() and alerts() called from several threads at once, with the
\* loop clearing the cache or not, each go on to their end (a call in progress
\* can always take its next step and holds a bundle for every group it has
\* read), and the N state() calls completed have added exactly N snapshots to
\* history, none lost, N being at most history_size.
ConcurrentCallsLoseNoSnapshot ==
    /\ \A w \in JobThreads :
          job[w].op # "none" =>
             /\ ENABLED JobStep(w)
             /\ job[w].pc \in {"build", "append"} => Len(job[w].got) = Len(StateGroups)
             /\ job[w].pc = "return" => Len(job[w].got) \in {1, 2}
    /\ Len(taken) <= cfg.history_size => history = taken

\* a thread is about to append its snapshot to a history that another
\* thread's state() has appended to since this one entered state(), while
\* another thread is inside a call of its own
ConcurrentCallsLoseNoSnapshotWitness ==
    \E w \in JobThreads :
        /\ job[w].pc = "append"
        /\ job[w].seen # history
        /\ \E v \in JobThreads \ {w} : job[v].op # "none"

\* C29: an iteration of the loop that raises nothing runs alerts(), then
\* cache.clear_expired(), then state() exactly when the time from the last
\* full snapshot (or from the start of the loop) to the start of the iteration
\* is at least the interval, then the sleep; state() is reached once per
\* iteration at most, and never before a full interval has passed since the
\* loop started or took its last snapshot.
LoopIterationOrder ==
    /\ [](\A t \in ThreadIds :
            thr[t].pc = "state" =>
               /\ thr[t].current_time - thr[t].last_check >= interval
               /\ now - thr[t].last_check >= interval)
    /\ [][\A t \in ThreadIds :
            LET a == thr[t]
                b == thr'[t]
            IN /\ (a.pc = "init" /\ b.pc # "init")
                     => b.pc = "test" /\ b.last_check = now
               /\ (a.pc = "test" /\ b.pc \notin {"test", "done"})
                     => b.pc = "alerts" /\ b.current_time = now
               /\ (a.pc = "alerts" /\ b.pc \notin {"alerts", "backoff", "done"})
                     => b.pc = "clear"
               /\ (a.pc = "clear" /\ b.pc # "clear")
                     => b.pc = IF a.current_time - a.last_check >= interval
                               THEN "state" ELSE "sleep"
               /\ (a.pc = "state" /\ b.pc \notin {"state", "backoff", "done"})
                     => b.pc = "sleep" /\ b.last_check = a.current_time
               /\ (a.pc = "sleep" /\ b.pc # "sleep") => b.pc = "test"
               /\ (b.pc = "state" /\ a.pc # "state") => a.pc = "clear"
               /\ (b.last_check # a.last_check /\ b.pc # "done")
                     => a.pc \in {"init", "state"}]_vars

\* an iteration has run alerts() and clear_expired() and has reached state(),
\* a full interval after the last snapshot or the start of the loop, which
\* was itself later than the construction of the Monitor
LoopIterationOrderWitness ==
    \E t \in ThreadIds :
        /\ thr[t].pc = "state"
        /\ thr[t].last_check >= interval
        /\ thr[t].current_time = now

\* C30: after the n-th consecutive failure, n from 1 to 4, the loop backs off
\* for min(interval * 2^n, interval * 10), that is 2, 4, 8, 10 times the
\* interval: a base that does not decrease with n and never exceeds 10 times
\* the interval, plus a jitter that is not negative and is less than a tenth
\* of the base.
BackoffIsCappedExponential ==
    \A t \in ThreadIds :
        thr[t].pc = "backoff" =>
            LET n == thr[t].consecutive_errors
                base == thr[t].backoff
            IN /\ n \in 1..4
               /\ base = interval * (IF n = 1 THEN 2 ELSE IF n = 2 THEN 4
                                     ELSE IF n = 3 THEN 8 ELSE 10)
               /\ base <= 10 * interval
               /\ \A m \in 1..n : base_backoff(interval, m) <= base
               /\ thr[t].jitter >= 0
               /\ thr[t].jitter < base * JitterSteps

\* the loop backs off after its fourth consecutive failure, for 10 times the
\* interval and a jitter that is not zero
BackoffIsCappedExponentialWitness ==
    \E t \in ThreadIds :
        /\ thr[t].pc = "backoff"
        /\ thr[t].consecutive_errors = 4
        /\ thr[t].backoff = 10 * interval
        /\ thr[t].jitter > 0

\* C31: once the stop event is set, a loop thread begins no new iteration:
\* its loop test, its sleep and its backoff lead out of the loop, only the
\* iteration in progress runs to its end, and under fair scheduling every
\* loop thread exits in the end.
LoopExitsOnceStopped ==
    /\ [][stop_event =>
            \A t \in ThreadIds :
                /\ thr'[t].pc = "alerts" => thr[t].pc = "alerts"
                /\ thr[t].pc \in {"test", "backoff"} => thr'[t].pc \in {thr[t].pc, "done"}
                /\ thr[t].pc = "sleep" => thr'[t].pc \in {"sleep", "test"}]_vars
    /\ stop_event ~> (\A t \in ThreadIds : ~is_alive(t))

\* the stop event is set while the loop thread is inside an iteration, at its
\* sleep, after a snapshot
LoopExitsOnceStoppedWitness ==
    /\ stop_event
    /\ \E t \in ThreadIds : thr[t].pc = "sleep" /\ thr[t].last_check > 0

\* the last call made on the Monitor is a state() that raised
SnapshotFailed == lastCall.op = "state" /\ lastCall.raised

\* C32: when a step of an iteration raises, the rest of the iteration is not
\* run: a failing alerts() or state() leads to the backoff (or out of the
\* loop), never to clear_expired, the snapshot or the normal sleep; a state()
\* that failed has appended nothing to history and has left the time of
\* the last full snapshot as it was, so the snapshot is still due when the
\* next iteration of that loop thread begins.
FailedStepEndsIteration ==
    /\ [](\A t \in ThreadIds :
            /\ (SnapshotFailed /\ thr[t].pc = "backoff")
                  => now - thr[t].last_check >= interval
            /\ (SnapshotFailed /\ thr[t].pc = "alerts" /\ thr[t].consecutive_errors > 0)
                  => thr[t].current_time - thr[t].last_check >= interval)
    /\ [][\A t \in ThreadIds :
            LET a == thr[t]
                b == thr'[t]
            IN /\ (a.pc \in {"alerts", "state"} /\ lastCall'.raised /\ b # a)
                     => /\ b.pc \in {"backoff", "done"}
                        /\ history' = history
                        /\ taken' = taken
                        /\ b.pc = "backoff" => b.last_check = a.last_check
               /\ (a.pc = "backoff" /\ b.pc # "backoff") => b.pc \in {"test", "done"}
               /\ (a.pc = "clear" /\ b.pc # "clear")
                     => b.pc = IF a.current_time - a.last_check >= interval
                               THEN "state" ELSE "sleep"]_vars

\* the loop backs off after a state() that raised, with a snapshot in history
\* from an earlier iteration
FailedStepEndsIterationWitness ==
    /\ SnapshotFailed
    /\ history # <<>>
    /\ \E t \in ThreadIds : thr[t].pc = "backoff" /\ thr[t].last_check > 0

\* the loop of the current handle has terminated itself through the circuit
\* breaker and stop() has not set the stop event
BrokenAndNotStopped ==
    /\ monitoring_thread # None
    /\ thr[monitoring_thread].exit = "breaker"
    /\ ~stop_event

\* C33: after the loop has terminated itself through the circuit breaker,
\* stop() not having been called, the next start() does not return early: it
\* launches one new loop thread, the only thread alive, whose
\* consecutive-error counter is 0 when it enters its loop, and is_running is
\* true again.
StartAfterBreakerRestarts ==
    /\ [](\A t \in ThreadIds : thr[t].pc = "init" => thr[t].consecutive_errors = 0)
    /\ [][\A c \in Callers :
            /\ (EntersStart(c) /\ BrokenAndNotStopped) => pc'[c] = "start_launch"
            /\ (pc[c] = "start_launch" /\ pc'[c] = "start_end" /\ BrokenAndNotStopped)
                  => /\ monitoring_thread' # monitoring_thread
                     /\ thr[monitoring_thread'].pc = "new"
                     /\ {t \in ThreadIds : thr'[t] # thr[t]} = {monitoring_thread'}
                     /\ AliveThreads' = {monitoring_thread'}
                     /\ is_running'
            /\ \A t \in ThreadIds :
                  (thr[t].pc = "init" /\ thr'[t].pc # "init")
                     => thr'[t].pc = "test" /\ thr'[t].consecutive_errors = 0]_vars

\* a second loop, started after the first one tripped the breaker, has entered
\* its iterations with its counter at 0 and is_running is true
StartAfterBreakerRestartsWitness ==
    /\ Tripped
    /\ is_running
    /\ lastOp = "start"
    /\ thr[monitoring_thread].pc = "alerts"
    /\ thr[monitoring_thread].consecutive_errors = 0

\* C34: history holds its snapshots in the order they were captured, also
\* when state() is called by several threads at once (the loop thread among
\* them): the timestamps in history never decrease from oldest to newest.
HistoryInCaptureOrder ==
    \A i, j \in DOMAIN history :
        i < j => history[i].timestamp <= history[j].timestamp

\* the next step of a caller that is inside start(), stop() or is_running
InsideStep(c) ==
    \/ StartLaunch(c)
    \/ StartReturn(c)
    \/ StopJoin(c)
    \/ StopReturn(c)
    \/ IsRunningReturn(c)

\* every thread identity of the model has been used by a start()
OutOfThreads == \A t \in ThreadIds : thr[t].pc # "new"

\* C35: no interleaving of start(), stop(), is_running and the loop
\* deadlocks.  _running_lock is held only by a caller inside one of the three
\* calls; that caller can always take its next step, the join of stop()
\* included, whatever the loop thread does; a live loop thread can always take
\* its next step whoever holds the lock; and once the lock is free every
\* waiting caller can enter its call.
NoDeadlockOnRunningLock ==
    /\ \A c \in Callers :
          /\ pc[c] # "idle" <=> running_lock = c
          /\ running_lock = c =>
                \/ ENABLED InsideStep(c)
                \/ pc[c] = "start_launch" /\ OutOfThreads
          /\ running_lock = NoOwner =>
                /\ ENABLED StartCheck(c)
                /\ ENABLED StopCheck(c)
                /\ ENABLED IsRunningEnter(c)
    /\ \A t \in ThreadIds : is_alive(t) => ENABLED LoopStep(t)

\* stop() holds the lock in its join while the loop thread, still alive, is
\* at its while test and another caller waits for the lock
NoDeadlockOnRunningLockWitness ==
    \E c \in Callers :
        /\ pc[c] = "stop_join"
        /\ running_lock = c
        /\ monitoring_thread # None
        /\ thr[monitoring_thread].pc = "test"
        /\ \E d \in Callers \ {c} : pc[d] = "idle"

\* the worker w makes the cache.set that ends a refresh in which every source
\* call of its group has returned
CompletedRefreshSets(w) ==
    /\ wk[w].pc = "f_set"
    /\ wk'[w].pc = "f_setd"
    /\ wk[w].calls = Len(SourceCalls(wk[w].g))
    /\ cache' = set(cache, cache_key(wk[w].g), wk[w].val, update_intervals(wk[w].g), now)

\* C36: a refresh of a group that raises leaves the cache as it was for that
\* group: the step by which _get_*_metrics is left through the exception
\* stores no partial bundle and replaces no entry, and an entry is created or
\* replaced only by the set of a refresh whose source calls all returned.
RaisedRefreshLeavesCache ==
    [][/\ \A w \in Workers :
             (wk[w].pc # "f_raised" /\ wk'[w].pc = "f_raised") => cache' = cache
       /\ cache' # cache => \E w \in Workers : CompletedRefreshSets(w)]_vars

\* a refresh has raised over an entry of its group whose ttl had run out: the
\* entry is still in the cache
RaisedRefreshLeavesCacheWitness ==
    \E w \in Workers :
        /\ wk[w].pc = "f_raised"
        /\ cache_key(wk[w].g) \in DOMAIN cache
        /\ is_expired(cache[cache_key(wk[w].g)], now)


\* C37: in the legacy Monitor of system_monitor.py at most one background
\* loop thread is active at a time, whatever the sequence of start() and
\* stop() calls; a stop() followed by a start() while the old loop is still
\* in its sleep does not leave two loops running.
LegacyOneLoopAtATime ==
    Cardinality(LegacyLoops) <= 1

====
